---- MODULE Spec2Model ----
(***************************************************************************)
(* A model of the SEM Workflow Manager's registration and discovery code.  *)
(*                                                                         *)
(* The program is a set of independent workflows over the metadata of one  *)
(* or more sessions.  Each workflow is modelled as its own area of the     *)
(* state, with its own initial predicate and next-state relation           *)
(* (SpecCoord, SpecMag, SpecCompare, SpecScene, SpecFunc); Spec is their    *)
(* union.                                                                  *)
(*                                                                         *)
(* Numbers that the program holds as floats are modelled as exact          *)
(* rationals <<n, d>> (d > 0, lowest terms); the input sets are chosen so  *)
(* that the program's float results on them equal the exact results.       *)
(***************************************************************************)
EXTENDS Integers, Sequences, FiniteSets, TLC

VARIABLES
    area,        \* which workflow this behaviour exercises
    overview,    \* the overview image's metadata and pixel size
    targets,     \* session images: physical positions (um)
    markers,     \* _mark_session_image_locations: one entry per filtered image
    validated,   \* validate_coordinates_with_metadata: one entry per match
    canvas,      \* the preview canvas: displayed image and coordinate system
    readout,     \* on_mouse_move: the last coordinate read-out
    metadata,    \* session_manager.metadata, in insertion order
    mag,         \* MagGridWorkflow.discover_collections: loop position and chain
    magCollections, \* MagGridWorkflow.collections
    matchOracle, \* what template matching finds for each (low, high) image pair
    tested,      \* history: the (tail, candidate) pairs tested by the running pass
    csvFiles,    \* disk: the metadata CSV of each session folder
    sessions,    \* CompareGridWorkflow.sessions: the folders, in insertion order
    all_metadata, \* CompareGridWorkflow.all_metadata, in insertion order
    consolidated_metadata, \* CompareGridWorkflow.consolidated_metadata (cache)
    compareCollections, \* CompareGridWorkflow.collections
    mode_voltage_combinations, \* discover_collections: the (mode, voltage) combinations of its last run
    positionGroups, \* ModeGridWorkflow._group_by_position: its last result
    call,        \* the last call of a function that keeps no state: name and arguments
    result,      \* what that call returned
    sm,          \* SessionManager: session_folder, current_session, image_files, metadata
    wf,          \* the workflow: workflow_folder and collections
    diskCsv,     \* disk: the metadata CSV of each session folder that can be opened
    stored,      \* disk: the collection files written, each with its folder
    opened,      \* history: the last open_session call, the manager before and after it
    lastIo,      \* history: the folder the workflow last saved to or loaded from
    switchColl,  \* the collection handed to switch_image_alternative
    switchLast   \* history: the last switch_image_alternative call and the collection before it

coordVars == <<overview, targets, markers, validated, canvas, readout>>
magVars == <<mag, magCollections, matchOracle, tested>>
compareVars ==
    <<csvFiles, sessions, all_metadata, consolidated_metadata,
      compareCollections, mode_voltage_combinations>>
sceneVars == <<positionGroups>>
funcVars == <<call, result>>
sessionVars == <<sm, wf, diskCsv, stored, opened, lastIo>>
switchVars == <<switchColl, switchLast>>
vars ==
    <<area, coordVars, metadata, magVars, compareVars, sceneVars, funcVars,
      sessionVars, switchVars>>

(***************************************************************************)
(* Exact rational arithmetic.                                              *)
(***************************************************************************)
Abs(n) == IF n < 0 THEN -n ELSE n

RECURSIVE Gcd(_, _)
Gcd(a, b) == IF b = 0 THEN a ELSE Gcd(b, a % b)

Rat(n, d) ==
    LET g == Gcd(Abs(n), Abs(d))
        s == IF d < 0 THEN -1 ELSE 1
    IN  IF n = 0 THEN <<0, 1>> ELSE <<(s * n) \div g, (s * d) \div g>>

RInt(n) == <<n, 1>>
RAdd(a, b) == Rat(a[1] * b[2] + b[1] * a[2], a[2] * b[2])
RNeg(a) == <<-a[1], a[2]>>
RSub(a, b) == RAdd(a, RNeg(b))
RMul(a, b) == Rat(a[1] * b[1], a[2] * b[2])
RDiv(a, b) == Rat(a[1] * b[2], a[2] * b[1])
RLe(a, b) == a[1] * b[2] <= b[1] * a[2]
RLt(a, b) == a[1] * b[2] < b[1] * a[2]
RAbs(a) == <<Abs(a[1]), a[2]>>
RZero == <<0, 1>>

\* Python's int(): truncation toward zero.
PyInt(a) == IF a[1] >= 0 THEN a[1] \div a[2] ELSE -((-a[1]) \div a[2])

(***************************************************************************)
(* Area "coord": physical <-> pixel conversion.                            *)
(*   workflows/annotate_overview.py  _mark_session_image_locations         *)
(*   coordinate_matching_test.py     validate_coordinates_with_metadata    *)
(*   ui/annotate_overview_panel.py   _display_image, on_mouse_move         *)
(* Positions are in micrometers (after the code's meters -> um step).      *)
(***************************************************************************)
MaxTargets == 2

RulerWidth == 60
ValidDistancePx == 100

OverviewSizes == {<<200, 100>>}
CenterValues == {<<0, 0>>, <<50, 20>>}
FovValues == {0, 200, 400}
RotationValues == {0, 180}
TargetPoints == {<<-150, 0>>, <<0, 0>>, <<10, 0>>, <<10, 20>>, <<50, 20>>}
MatchPoints == {<<100, 50>>, <<160, 130>>, <<160, 131>>}

Overviews ==
    { [center_x |-> c[1], center_y |-> c[2], fov_width |-> f,
       width |-> s[1], height |-> s[2], scan_rotation |-> r] :
        c \in CenterValues, f \in FovValues, s \in OverviewSizes,
        r \in RotationValues }

TargetSet == { [x |-> p[1], y |-> p[2]] : p \in TargetPoints }

SeqsUpTo(S, n) == UNION { [1..k -> S] : k \in 0..n }

\* um_per_pixel_x = fov_width_um / img.width; the height is estimated from the
\* aspect ratio, so um_per_pixel_y = (fov_width_um * h / w) / h.
UmPerPixelX(ov) == Rat(ov.fov_width, ov.width)
UmPerPixelY(ov) == RDiv(Rat(ov.fov_width * ov.height, ov.width), RInt(ov.height))

\* dx_pixels = -dx_um / um_per_pixel_x if um_per_pixel_x != 0 else 0
MarkToPixels(d_um, um_per_pixel) ==
    IF um_per_pixel # RZero THEN RDiv(RNeg(RInt(d_um)), um_per_pixel) ELSE RZero

\* One iteration of the crosshair loop for the image at (pos_x, pos_y).
MarkOne(ov, t) ==
    LET dx_um == t.x - ov.center_x
        dy_um == t.y - ov.center_y
        dx_pixels == MarkToPixels(dx_um, UmPerPixelX(ov))
        dy_pixels == MarkToPixels(dy_um, UmPerPixelY(ov))
        x == PyInt(RAdd(RAdd(RInt(RulerWidth), Rat(ov.width, 2)), dx_pixels))
        y == PyInt(RAdd(Rat(ov.height, 2), dy_pixels))
        new_width == ov.width + RulerWidth
    IN  [pos_x |-> t.x, pos_y |-> t.y,
         dx_pixels |-> dx_pixels, dy_pixels |-> dy_pixels,
         x |-> x, y |-> y,
         drawn |-> ~(x < RulerWidth \/ x >= new_width \/ y < 0 \/ y >= ov.height)]

\* filtered_images: the selected indices that are in range, or all images
\* when no selection is given.
RECURSIVE FilterSelected(_, _)
FilterSelected(session_images, selected) ==
    IF selected = <<>> THEN <<>>
    ELSE LET idx == Head(selected)
             rest == FilterSelected(session_images, Tail(selected))
         IN  IF 1 <= idx /\ idx <= Len(session_images)
             THEN <<session_images[idx]>> \o rest
             ELSE rest

FilteredImages(session_images, selected) ==
    IF Len(selected) > 0 THEN FilterSelected(session_images, selected)
    ELSE session_images

MarkSessionImageLocations(ov, session_images, selected) ==
    LET f == FilteredImages(session_images, selected)
    IN  [i \in 1..Len(f) |-> MarkOne(ov, f[i])]

\* Exact cosine and sine of the scan rotations the model draws.
CosDeg(a) == IF a % 360 = 0 THEN 1 ELSE -1
SinDeg(a) == 0

\* dx_pixels = dx_um / um_per_pixel_x ; dy_pixels = -dy_um / um_per_pixel_y
ValidXToPixels(d_um, um_per_pixel) ==
    IF um_per_pixel # RZero THEN RDiv(RInt(d_um), um_per_pixel) ELSE RZero
ValidYToPixels(d_um, um_per_pixel) ==
    IF um_per_pixel # RZero THEN RDiv(RNeg(RInt(d_um)), um_per_pixel) ELSE RZero

\* One iteration of the validation loop for a match at (match_x, match_y).
ValidateOne(ov, t, m, rotation_direction) ==
    LET um_per_pixel_x == UmPerPixelX(ov)
        um_per_pixel_y == um_per_pixel_x
        dx0 == t.x - ov.center_x
        dy0 == t.y - ov.center_y
        ang == ov.scan_rotation * rotation_direction
        dx_um == IF ov.scan_rotation # 0
                 THEN dx0 * CosDeg(ang) + dy0 * SinDeg(ang) ELSE dx0
        dy_um == IF ov.scan_rotation # 0
                 THEN -dx0 * SinDeg(ang) + dy0 * CosDeg(ang) ELSE dy0
        dx_pixels == ValidXToPixels(dx_um, um_per_pixel_x)
        dy_pixels == ValidYToPixels(dy_um, um_per_pixel_y)
        expected_x == PyInt(RAdd(Rat(ov.width, 2), dx_pixels))
        expected_y == PyInt(RAdd(Rat(ov.height, 2), dy_pixels))
        dist_sq == (expected_x - m[1]) * (expected_x - m[1])
                   + (expected_y - m[2]) * (expected_y - m[2])
    IN  [pos_x |-> t.x, pos_y |-> t.y,
         dx_pixels |-> dx_pixels, dy_pixels |-> dy_pixels,
         expected_x |-> expected_x, expected_y |-> expected_y,
         match_x |-> m[1], match_y |-> m[2],
         distance_sq |-> dist_sq,
         \* is_valid = distance_px < 100
         is_valid |-> dist_sq < ValidDistancePx * ValidDistancePx]

\* _display_image: the canvas shows the annotated image (overview plus rulers)
\* and takes its scale from the displayed image's width.
DisplayImage(ov) ==
    LET shown_width == ov.width + RulerWidth
        shown_height == ov.height + RulerWidth
        um == IF ov.fov_width > 0 /\ shown_width > 0
              THEN Rat(ov.fov_width, shown_width) ELSE RInt(1)
    IN  [shown |-> TRUE, img_width |-> shown_width, img_height |-> shown_height,
         overview_center_x |-> ov.center_x, overview_center_y |-> ov.center_y,
         um_per_pixel_x |-> um, um_per_pixel_y |-> um]

\* on_mouse_move at (xdata, ydata) of the displayed image.
OnMouseMove(cv, xdata, ydata) ==
    LET center_x == Rat(cv.img_width, 2)
        center_y == Rat(cv.img_height, 2)
        delta_x_pixels == RSub(center_x, RInt(xdata))
        delta_y_pixels == RSub(center_y, RInt(ydata))
    IN  [taken |-> TRUE, xdata |-> xdata, ydata |-> ydata,
         microscope_x |-> RSub(RInt(cv.overview_center_x),
                               RMul(delta_x_pixels, cv.um_per_pixel_x)),
         microscope_y |-> RAdd(RInt(cv.overview_center_y),
                               RMul(delta_y_pixels, cv.um_per_pixel_y))]

SelectedChoices ==
    {<<>>, <<2, 1>>} \cup { <<i>> : i \in 1..(MaxTargets + 1) }

CanvasInit ==
    [shown |-> FALSE, img_width |-> 0, img_height |-> 0,
     overview_center_x |-> 0, overview_center_y |-> 0,
     um_per_pixel_x |-> RInt(1), um_per_pixel_y |-> RInt(1)]

ReadoutInit ==
    [taken |-> FALSE, xdata |-> 0, ydata |-> 0,
     microscope_x |-> RZero, microscope_y |-> RZero]

CoordIdle ==
    /\ overview = [center_x |-> 0, center_y |-> 0, fov_width |-> 0,
                   width |-> 0, height |-> 0, scan_rotation |-> 0]
    /\ targets = <<>>
    /\ markers = <<>>
    /\ validated = <<>>
    /\ canvas = CanvasInit
    /\ readout = ReadoutInit

(***************************************************************************)
(* Image metadata (models/metadata_extractor.py, ImageMetadata).           *)
(* A field that is None in the program holds PyNone here.                  *)
(***************************************************************************)
PyNone == -1000000

Meta(path, mode, hv, magnification, x, y, fw, fh) ==
    [image_path |-> path, filename |-> path, mode |-> mode,
     high_voltage_kV |-> hv, magnification |-> magnification,
     sample_position_x |-> x, sample_position_y |-> y,
     field_of_view_width |-> fw, field_of_view_height |-> fh]

IsValid(m) ==
    /\ m.mode # "None"
    /\ m.high_voltage_kV # PyNone
    /\ m.magnification # PyNone
    /\ m.field_of_view_width # PyNone
    /\ m.field_of_view_height # PyNone
    /\ m.sample_position_x # PyNone
    /\ m.sample_position_y # PyNone

\* Sequences of distinct elements of S, of length at most n.
DistinctSeqsUpTo(S, n) ==
    { q \in SeqsUpTo(S, n) : \A i, j \in 1..Len(q) : i # j => q[i] # q[j] }

(***************************************************************************)
(* Area "mag": workflows/mag_grid.py, pyramid discovery.                   *)
(***************************************************************************)
MaxImages == 4

MagCatalogue ==
    { Meta("a", "sed", 15, 100, 0, 0, 1000, 1000),
      Meta("b", "sed", 15, 500, 100, 0, 200, 200),
      Meta("c", "sed", 15, 2000, 120, 10, 50, 50),
      Meta("d", "sed", 15, 500, 2000, 0, 200, 200),
      Meta("e", "sed", 15, 150, 0, 0, 1000, 1000),
      Meta("f", "mix", 15, 500, 100, 0, 200, 200),
      Meta("m", "mix", 15, 2000, 120, 10, 50, 50),
      Meta("g", "sed", 10, 2000, 120, 10, 50, 50),
      Meta("h", "sed", 15, 140, 0, 0, 700, 700),
      Meta("n", "sed", 15, PyNone, 0, 0, 100, 100) }

\* key = f"{metadata.mode}_{metadata.high_voltage_kV}": the voltage is a number,
\* so two keys are equal exactly when mode and voltage are.
GroupKey(m) == <<m.mode, m.high_voltage_kV>>

\* The groups dict: for each key, in order of first appearance, the indices of
\* the valid images with that key, in insertion order.
ValidIndices(md) == SelectSeq([i \in 1..Len(md) |-> i], LAMBDA i : IsValid(md[i]))

RECURSIVE Dedup(_)
Dedup(q) ==
    IF q = <<>> THEN <<>>
    ELSE LET r == Dedup(SelectSeq(Tail(q), LAMBDA k : k # Head(q)))
         IN  <<Head(q)>> \o r

MagGroups(md) ==
    LET v == ValidIndices(md)
        keys == Dedup([k \in 1..Len(v) |-> GroupKey(md[v[k]])])
    IN  [g \in 1..Len(keys) |->
            SelectSeq(v, LAMBDA i : GroupKey(md[i]) = keys[g])]

\* sorted_images.sort(key=lambda x: x[1].magnification): a stable sort.
RECURSIVE InsertByMag(_, _, _)
InsertByMag(md, q, i) ==
    IF q = <<>> THEN <<i>>
    ELSE IF md[i].magnification < md[Head(q)].magnification
         THEN <<i>> \o q
         ELSE <<Head(q)>> \o InsertByMag(md, Tail(q), i)

RECURSIVE SortByMag(_, _)
SortByMag(md, q) ==
    IF q = <<>> THEN <<>>
    ELSE InsertByMag(md, SortByMag(md, SubSeq(q, 1, Len(q) - 1)), q[Len(q)])

\* The field of view of high lies inside the field of view of low.  The
\* bounds are center -+ size / 2; both sides are doubled here.
FovInside(low, high) ==
    LET low_left == 2 * low.sample_position_x - low.field_of_view_width
        low_right == 2 * low.sample_position_x + low.field_of_view_width
        low_top == 2 * low.sample_position_y - low.field_of_view_height
        low_bottom == 2 * low.sample_position_y + low.field_of_view_height
        high_left == 2 * high.sample_position_x - high.field_of_view_width
        high_right == 2 * high.sample_position_x + high.field_of_view_width
        high_top == 2 * high.sample_position_y - high.field_of_view_height
        high_bottom == 2 * high.sample_position_y + high.field_of_view_height
    IN  /\ high_left >= low_left /\ high_right <= low_right
        /\ high_top >= low_top /\ high_bottom <= low_bottom

\* Mutant: the magnification comparison is reversed.
CheckContainment_MagReversed(low, high) ==
    IF low.mode # high.mode \/ low.high_voltage_kV # high.high_voltage_kV
    THEN FALSE
    ELSE IF 2 * high.magnification > 3 * low.magnification
    THEN FALSE
    ELSE FovInside(low, high)

\* Mutant: every candidate passes the containment test.
CheckContainment_Always(low, high) == TRUE

\* _check_containment(low_metadata, high_metadata)
CheckContainment(low, high) ==
    IF low.mode # high.mode \/ low.high_voltage_kV # high.high_voltage_kV
    THEN FALSE
    ELSE IF 2 * high.magnification < 3 * low.magnification   \* high < low * 1.5
    THEN FALSE
    ELSE FovInside(low, high)

\* Image files of the catalogue that cv2.imread cannot load, and image files
\* on which the OpenCV calls of _template_match raise.
UnreadableImages == {"h"}
RaisingImages == {"e"}

\* What can happen inside _template_match for a pair of images.
TemplateOutcomes(low, high) ==
    IF low.image_path \in UnreadableImages \/ high.image_path \in UnreadableImages
    THEN {"unreadable"}
    ELSE IF low.image_path \in RaisingImages \/ high.image_path \in RaisingImages
    THEN {"exception"}
    ELSE {"rect", "below_threshold"}

\* Mutant: an exception inside template matching is not caught.
MatchRect_Propagates(outcome) ==
    IF outcome = "rect" THEN "match"
    ELSE IF outcome = "exception" THEN "raise"
    ELSE "nomatch"

\* What _template_match hands back to _build_mag_pyramids: a rectangle, or
\* None for unloadable images, a score below the threshold and any exception
\* (the whole body is inside try / except Exception).
MatchRect(outcome) ==
    IF outcome = "rect" THEN "match" ELSE "nomatch"

\* Mutant: the tail is never advanced, every candidate is tested against the head.
NextTail_KeepHead(low, high) == low

\* low_img_path, low_metadata = high_img_path, high_metadata
NextTail(low, high) == high

\* if len(pyramid) >= 2
MinPyramidLevels == 2

MagIdleState ==
    [pc |-> "idle", groups |-> <<>>, g |-> 0, sorted_images |-> <<>>,
     i |-> 0, j |-> 0, low |-> 0, pyramid |-> <<>>]

ImagePairs(md) == (1..Len(md)) \X (1..Len(md))

MagIdle ==
    /\ mag = MagIdleState
    /\ magCollections = <<>>
    /\ matchOracle = << >>
    /\ tested = {}

(***************************************************************************)
(* Area "compare": workflows/compare_grid.py, cross-session comparison.    *)
(* A path is a sequence of characters, so that os.path.basename and        *)
(* str.startswith act on it as they do in the program.                     *)
(***************************************************************************)
SessionFolders ==
    { <<"/", "a", "/", "s", "1">>,
      <<"/", "b", "/", "s", "1">>,
      <<"/", "a", "/", "s", "1", "0">> }

\* str.startswith
StartsWith(s, prefix) ==
    /\ Len(prefix) <= Len(s)
    /\ SubSeq(s, 1, Len(prefix)) = prefix

\* os.path.basename: what follows the last separator
Basename(p) ==
    LET seps == { i \in 1..Len(p) : p[i] = "/" }
        last == IF seps = {} THEN 0
                ELSE CHOOSE i \in seps : \A j \in seps : j <= i
    IN  SubSeq(p, last + 1, Len(p))

\* os.path.dirname: what precedes the last separator
Dirname(p) ==
    LET seps == { i \in 1..Len(p) : p[i] = "/" }
        last == IF seps = {} THEN 0
                ELSE CHOOSE i \in seps : \A j \in seps : j <= i
    IN  SubSeq(p, 1, last - 1)

\* os.path.join(folder, name)
JoinPath(folder, name) == folder \o <<"/">> \o name

\* The order of the characters that occur in the paths.
CharRank(c) ==
    CASE c = "/" -> 1 [] c = "0" -> 2 [] c = "1" -> 3 [] c = "2" -> 4
      [] c = "3" -> 5 [] c = "4" -> 6 [] c = "5" -> 7 [] c = "6" -> 8
      [] c = "a" -> 9 [] c = "b" -> 10 [] c = "s" -> 11

\* Python's order on strings
StrLess(a, b) ==
    \E k \in 1..(Len(b)) :
        /\ k <= Len(a) + 1
        /\ \A i \in 1..(k - 1) : a[i] = b[i]
        /\ \/ k = Len(a) + 1
           \/ CharRank(a[k]) < CharRank(b[k])

\* The order of the detector modes as strings.
ModeRank(mode) == CASE mode = "bsd" -> 1 [] mode = "sed" -> 2

\* One row of a session's metadata CSV, as _save_metadata_csv writes it.
CsvRow(name, mode, hv, magnification) ==
    [name |-> name, mode |-> mode, high_voltage_kV |-> hv,
     magnification |-> magnification]

ImageNames == <<"1", "2", "3", "4", "5", "6">>

SedRows(mags) ==
    [i \in 1..Len(mags) |-> CsvRow(<<ImageNames[i]>>, "sed", 15, mags[i])]

NoCsv == [exists |-> FALSE, rows |-> <<>>]

Csv(rows) == [exists |-> TRUE, rows |-> rows]

\* What a session folder may hold: no metadata CSV, or one of these.
CsvProfiles ==
    { NoCsv,
      Csv(SedRows(<<100>>)),
      Csv(SedRows(<<205, 98, 102>>)),
      Csv(SedRows(<<100, 101, 102, 103, 104, 105>>)),
      Csv(SedRows(<<112, 100, 110>>)),
      Csv(SedRows(<<100, 113>>)),
      Csv(<<CsvRow(<<"1">>, "bsd", 15, 100),
            CsvRow(<<"2">>, "sed", 10, 100),
            CsvRow(<<"3">>, "sed", 15, PyNone)>>) }

\* SessionManager._load_metadata_csv on a fresh manager: image_path -> metadata
LoadMetadataCsv(folder, files) ==
    IF files[folder].exists
    THEN [i \in 1..Len(files[folder].rows) |->
            LET row == files[folder].rows[i]
            IN  [image_path |-> JoinPath(folder, row.name),
                 mode |-> row.mode,
                 high_voltage_kV |-> row.high_voltage_kV,
                 magnification |-> row.magnification]]
    ELSE <<>>

\* dict.update, on a dict kept as the sequence of its values in insertion order
RECURSIVE DictUpdate(_, _)
DictUpdate(d, new) ==
    IF new = <<>> THEN d
    ELSE LET m == Head(new)
             at == { i \in 1..Len(d) : d[i].image_path = m.image_path }
             d1 == IF at = {} THEN Append(d, m)
                   ELSE [i \in 1..Len(d) |-> IF i \in at THEN m ELSE d[i]]
         IN  DictUpdate(d1, Tail(new))

\* remove_session: the entries whose path starts with the folder are dropped
RemoveByPrefix(d, session_folder) ==
    SelectSeq(d, LAMBDA m : ~StartsWith(m.image_path, session_folder))

RemoveFolder(sess, session_folder) ==
    SelectSeq(sess, LAMBDA f : f # session_folder)

NoFrame == [cached |-> FALSE, rows |-> <<>>]

DfRow(m, session_id, session_folder) ==
    [image_path |-> m.image_path, mode |-> m.mode,
     high_voltage_kV |-> m.high_voltage_kV, magnification |-> m.magnification,
     session_id |-> session_id, session_folder |-> session_folder]

\* _consolidate_metadata, one session: its CSV, else the metadata in memory
SessionFrame(session_folder, files, all_md) ==
    LET session_id == Basename(session_folder)
        from_csv == LoadMetadataCsv(session_folder, files)
        session_metadata ==
            SelectSeq(all_md, LAMBDA m : StartsWith(m.image_path, session_folder))
        source == IF files[session_folder].exists THEN from_csv
                  ELSE session_metadata
    IN  [i \in 1..Len(source) |-> DfRow(source[i], session_id, session_folder)]

RECURSIVE ConcatFrames(_, _, _)
ConcatFrames(sess, files, all_md) ==
    IF sess = <<>> THEN <<>>
    ELSE SessionFrame(Head(sess), files, all_md)
         \o ConcatFrames(Tail(sess), files, all_md)

\* _consolidate_metadata: the cache after the call (its rows are the result).
\* A session adds a frame when its CSV exists or its metadata in memory is
\* not empty; without any frame nothing is cached.
ConsolidateMetadata(sess, files, all_md, cache) ==
    IF cache.cached THEN cache
    ELSE IF \A i \in 1..Len(sess) :
               /\ ~files[sess[i]].exists
               /\ SessionFrame(sess[i], files, all_md) = <<>>
         THEN NoFrame
         ELSE [cached |-> TRUE, rows |-> ConcatFrames(sess, files, all_md)]

\* df.groupby(['mode', 'high_voltage_kV']): the keys, ascending
ComboLess(a, b) ==
    \/ ModeRank(a[1]) < ModeRank(b[1])
    \/ a[1] = b[1] /\ a[2] < b[2]

RECURSIVE SortCombos(_)
SortCombos(S) ==
    IF S = {} THEN <<>>
    ELSE LET least == CHOOSE a \in S : \A b \in S \ {a} : ComboLess(a, b)
         IN  <<least>> \o SortCombos(S \ {least})

ModeVoltageCombinations(df) ==
    SortCombos({ <<df[i].mode, df[i].high_voltage_kV>> : i \in 1..Len(df) })

\* df[(df['mode'] == mode) & (df['high_voltage_kV'] == voltage)]
FilterModeVoltage(df, mode, voltage) ==
    SelectSeq(df, LAMBDA r : r.mode = mode /\ r.high_voltage_kV = voltage)

\* filtered_df['session_id'].nunique()
SessionCount(filtered_df) ==
    Cardinality({ filtered_df[i].session_id : i \in 1..Len(filtered_df) })

\* if session_count >= 2
MinSessionCount == 2

RECURSIVE SortAscending(_)
SortAscending(S) ==
    IF S = {} THEN <<>>
    ELSE LET least == CHOOSE a \in S : \A b \in S : a <= b
         IN  <<least>> \o SortAscending(S \ {least})

\* filtered_df['magnification'].dropna().unique().tolist(), then sort()
Magnifications(filtered_df) ==
    SortAscending({ filtered_df[i].magnification : i \in 1..Len(filtered_df) }
                  \ {PyNone})

WithinTolerance_Strict(m, base_mag) ==
    100 * Abs(m - base_mag) < 12 * base_mag

\* abs(mag - base_mag) / base_mag <= 0.12
WithinTolerance(m, base_mag) ==
    100 * Abs(m - base_mag) <= 12 * base_mag

\* for group in mag_groups: the first group whose first member is within
\* tolerance takes the magnification, else it starts a new group
RECURSIVE AddToGroups(_, _)
AddToGroups(mag_groups, m) ==
    IF mag_groups = <<>> THEN << <<m>> >>
    ELSE IF WithinTolerance(m, Head(mag_groups)[1])
         THEN <<Append(Head(mag_groups), m)>> \o Tail(mag_groups)
         ELSE <<Head(mag_groups)>> \o AddToGroups(Tail(mag_groups), m)

RECURSIVE GroupMagnifications(_)
GroupMagnifications(magnifications) ==
    IF magnifications = <<>> THEN <<>>
    ELSE AddToGroups(
             GroupMagnifications(SubSeq(magnifications, 1, Len(magnifications) - 1)),
             magnifications[Len(magnifications)])

\* the median of the group
RepresentativeMag(mag_group) ==
    LET n == Len(mag_group)
    IN  IF n % 2 = 0
        THEN Rat(mag_group[n \div 2] + mag_group[(n \div 2) + 1], 2)
        ELSE RInt(mag_group[(n \div 2) + 1])

\* mag_min = representative_mag * 0.88, mag_max = representative_mag * 1.12
InWindow(magnification, representative_mag) ==
    /\ magnification # PyNone
    /\ RLe(RMul(representative_mag, Rat(88, 100)), RInt(magnification))
    /\ RLe(RInt(magnification), RMul(representative_mag, Rat(112, 100)))

MagDf(filtered_df, representative_mag) ==
    SelectSeq(filtered_df, LAMBDA r : InWindow(r.magnification, representative_mag))

RECURSIVE SortIds(_)
SortIds(S) ==
    IF S = {} THEN <<>>
    ELSE LET least == CHOOSE a \in S : \A b \in S \ {a} : StrLess(a, b)
         IN  <<least>> \o SortIds(S \ {least})

\* mag_df.groupby('session_id'): the ids, ascending
SessionIds(mag_df) == SortIds({ mag_df[i].session_id : i \in 1..Len(mag_df) })

MagDiff(r, representative_mag) ==
    RAbs(RSub(RInt(r.magnification), representative_mag))

\* group_df.sort_values('mag_diff'); rows of equal difference keep their order
RECURSIVE SortByMagDiff(_, _)
SortByMagDiff(group_df, representative_mag) ==
    IF group_df = <<>> THEN <<>>
    ELSE LET n == Len(group_df)
             last == group_df[n]
             front == SortByMagDiff(SubSeq(group_df, 1, n - 1), representative_mag)
             keep == { i \in 1..Len(front) :
                         RLe(MagDiff(front[i], representative_mag),
                             MagDiff(last, representative_mag)) }
             k == Cardinality(keep)
         IN  SubSeq(front, 1, k) \o <<last>> \o SubSeq(front, k + 1, Len(front))

\* group_df.iloc[1:5]
MaxAlternatives == 4

Alternatives(sorted_df) ==
    LET n == IF Len(sorted_df) - 1 < MaxAlternatives
             THEN Len(sorted_df) - 1 ELSE MaxAlternatives
    IN  [i \in 1..n |-> sorted_df[i + 1].image_path]

\* one entry of collection_images, after _ensure_full_metadata
CollectionImage(session_id, mag_df, representative_mag) ==
    LET group_df == SelectSeq(mag_df, LAMBDA r : r.session_id = session_id)
        sorted_df == SortByMagDiff(group_df, representative_mag)
        best_image == sorted_df[1]
    IN  [path |-> best_image.image_path,
         magnification |-> best_image.magnification,
         session_folder |-> group_df[1].session_folder,
         alternatives |-> Alternatives(sorted_df),
         file_exists |-> TRUE,
         filename |-> Basename(best_image.image_path),
         parent_dir |-> Dirname(best_image.image_path)]

\* The collection of one magnification group; mag_group and
\* representative_mag record the locals it was built from.
CompareCollection(mode, voltage, mag_group, mag_df) ==
    LET representative_mag == RepresentativeMag(mag_group)
        ids == SessionIds(mag_df)
    IN  [type |-> "CompareGrid",
         id |-> <<"compare", mode, PyInt(representative_mag), voltage>>,
         images |-> [k \in 1..Len(ids) |->
                        CollectionImage(ids[k], mag_df, representative_mag)],
         mode |-> mode,
         high_voltage |-> voltage,
         magnification |-> PyInt(representative_mag),
         mag_group |-> mag_group,
         representative_mag |-> representative_mag]

\* for mag_group in mag_groups: a collection unless fewer than two sessions
\* have an image in the window
RECURSIVE GroupCollections(_, _, _, _)
GroupCollections(mode, voltage, filtered_df, mag_groups) ==
    IF mag_groups = <<>> THEN <<>>
    ELSE LET mag_group == Head(mag_groups)
             mag_df == MagDf(filtered_df, RepresentativeMag(mag_group))
             rest == GroupCollections(mode, voltage, filtered_df, Tail(mag_groups))
         IN  IF Len(SessionIds(mag_df)) < 2 THEN rest
             ELSE <<CompareCollection(mode, voltage, mag_group, mag_df)>> \o rest

\* mode_voltage_combinations: every (mode, voltage) combination of the frame
\* with its rows and its session count and, when it is found in at least two
\* sessions, the magnification groups made of it
ModeVoltageCombinationRows(df) ==
    LET combos == ModeVoltageCombinations(df)
    IN  [k \in 1..Len(combos) |->
            LET filtered_df == FilterModeVoltage(df, combos[k][1], combos[k][2])
                magnifications == Magnifications(filtered_df)
                kept == SessionCount(filtered_df) >= MinSessionCount
            IN  [mode |-> combos[k][1], voltage |-> combos[k][2],
                 data |-> filtered_df,
                 session_count |-> SessionCount(filtered_df),
                 magnifications |-> IF kept THEN magnifications ELSE <<>>,
                 mag_groups |-> IF kept THEN GroupMagnifications(magnifications)
                                ELSE <<>>]]

\* mode_voltage_groups: the combinations found in at least two sessions
ModeVoltageGroups(combinations) ==
    SelectSeq(combinations, LAMBDA c : c.session_count >= MinSessionCount)

RECURSIVE AllGroupCollections(_)
AllGroupCollections(groups) ==
    IF groups = <<>> THEN <<>>
    ELSE LET group == Head(groups)
         IN  GroupCollections(group.mode, group.voltage, group.data, group.mag_groups)
             \o AllGroupCollections(Tail(groups))

\* sessions_without_metadata
SessionsWithoutMetadata(sess, files) ==
    SelectSeq(sess, LAMBDA f : ~files[f].exists)

CompareIdle ==
    /\ csvFiles = << >>
    /\ sessions = <<>>
    /\ all_metadata = <<>>
    /\ consolidated_metadata = NoFrame
    /\ compareCollections = <<>>
    /\ mode_voltage_combinations = <<>>

(***************************************************************************)
(* Area "scene": workflows/mode_grid.py, grouping by position.             *)
(* A filename is a sequence of parts (stem, overlay marker, extension), so *)
(* that str.replace and the "in" test act on it as they do in the program. *)
(* The images of a session lie in one folder, so the filename stands for   *)
(* the path.                                                               *)
(***************************************************************************)
MaxPool == 3

SceneFilenames ==
    { <<"a", ".tif">>, <<"a", ".tiff">>, <<"b", ".tif">>,
      <<"a", "_ChemiSEM", ".tif">>, <<"b", "_ChemiSEM", ".tif">> }

\* Stage positions, in micrometres (floats with integral values).
ScenePositions == { <<1, 11>>, <<11, 1>>, <<1, 1>> }

\* "ChemiSEM" in metadata.filename
IsChemiSEM(filename) == \E i \in 1..Len(filename) : filename[i] = "_ChemiSEM"

\* Valid records of every file at every position, and of every file one
\* record that is not valid (no magnification).
SceneCatalogue ==
    { Meta(f, IF IsChemiSEM(f) THEN "sed" ELSE "bsd", 15, 500, p[1], p[2], 200, 200) :
        f \in SceneFilenames, p \in ScenePositions }
    \cup { Meta(f, "sed", 15, PyNone, 1, 1, 200, 200) : f \in SceneFilenames }

\* session_manager.metadata: the files are distinct
ScenePools ==
    { q \in SeqsUpTo(SceneCatalogue, MaxPool) :
        \A i, j \in 1..Len(q) : i # j => q[i].filename # q[j].filename }

\* filename.replace(old, ""), for an old that is one part of the filename
Remove(filename, old) == SelectSeq(filename, LAMBDA part : part # old)

\* base_name of a ChemSEM image
ChemsemBaseName(filename) ==
    Remove(Remove(Remove(filename, "_ChemiSEM"), ".tiff"), ".tif")

\* base_name of a normal image
NormalBaseName(filename) == Remove(Remove(filename, ".tiff"), ".tif")

\* d[key] = value, on a dict kept as the sequence of its items in insertion order
DictSet(d, key, value) ==
    IF \E i \in 1..Len(d) : d[i][1] = key
    THEN [i \in 1..Len(d) |-> IF d[i][1] = key THEN <<key, value>> ELSE d[i]]
    ELSE Append(d, <<key, value>>)

DictHas(d, key) == \E i \in 1..Len(d) : d[i][1] = key

DictGet(d, key) == d[CHOOSE i \in 1..Len(d) : d[i][1] = key][2]

DigitChar(d) ==
    CASE d = 0 -> "0" [] d = 1 -> "1" [] d = 2 -> "2" [] d = 3 -> "3"
      [] d = 4 -> "4" [] d = 5 -> "5" [] d = 6 -> "6" [] d = 7 -> "7"
      [] d = 8 -> "8" [] d = 9 -> "9"

RECURSIVE Digits(_)
Digits(n) ==
    IF n < 10 THEN <<DigitChar(n)>>
    ELSE Digits(n \div 10) \o <<DigitChar(n % 10)>>

\* f"{value}" for a float with an integral value
FormatFloat(value) ==
    (IF value < 0 THEN <<"-">> ELSE <<>>) \o Digits(Abs(value)) \o <<".", "0">>

PosKey_XOnly(x, y) == FormatFloat(x)

\* pos_key = f"{metadata.sample_position_x}_{metadata.sample_position_y}"
PosKey(x, y) == FormatFloat(x) \o <<"_">> \o FormatFloat(y)

\* valid_images
ValidImages(md) == SelectSeq(md, IsValid)

\* chemsem_images: base name -> path of the ChemSEM image, the last one wins
RECURSIVE ChemsemImages(_)
ChemsemImages(valid_images) ==
    IF valid_images = <<>> THEN <<>>
    ELSE LET n == Len(valid_images)
             m == valid_images[n]
             d == ChemsemImages(SubSeq(valid_images, 1, n - 1))
         IN  IF IsChemiSEM(m.filename)
             THEN DictSet(d, ChemsemBaseName(m.filename), m.image_path)
             ELSE d

\* normal_images: base name -> path of the regular image, the last one wins
RECURSIVE NormalImages(_)
NormalImages(valid_images) ==
    IF valid_images = <<>> THEN <<>>
    ELSE LET n == Len(valid_images)
             m == valid_images[n]
             d == NormalImages(SubSeq(valid_images, 1, n - 1))
         IN  IF IsChemiSEM(m.filename) THEN d
             ELSE DictSet(d, NormalBaseName(m.filename), m.image_path)

\* chemsem_matches: regular path -> ChemSEM path, in the order of normal_images
ChemsemMatches(normal_images, chemsem_images) ==
    LET matched == SelectSeq(normal_images,
                             LAMBDA item : DictHas(chemsem_images, item[1]))
    IN  [i \in 1..Len(matched) |->
            <<matched[i][2], DictGet(chemsem_images, matched[i][1])>>]

\* exact_position_groups: pos_key -> paths of the regular images, in order
RECURSIVE ExactPositionGroups(_)
ExactPositionGroups(valid_images) ==
    IF valid_images = <<>> THEN <<>>
    ELSE LET n == Len(valid_images)
             m == valid_images[n]
             d == ExactPositionGroups(SubSeq(valid_images, 1, n - 1))
             pos_key == PosKey(m.sample_position_x, m.sample_position_y)
         IN  IF IsChemiSEM(m.filename) THEN d
             ELSE IF DictHas(d, pos_key)
                  THEN DictSet(d, pos_key, Append(DictGet(d, pos_key), m.image_path))
                  ELSE DictSet(d, pos_key, <<m.image_path>>)

Contains(img_paths, path) == \E i \in 1..Len(img_paths) : img_paths[i] = path

\* the ChemSEM image goes to the first group that contains the regular image
AddChemsem(groups, regular_path, chemsem_path) ==
    LET holding == { i \in 1..Len(groups) : Contains(groups[i][2], regular_path) }
    IN  IF holding = {} THEN groups
        ELSE LET first == CHOOSE i \in holding : \A j \in holding : i <= j
             IN  [i \in 1..Len(groups) |->
                    IF i = first
                    THEN <<groups[i][1], Append(groups[i][2], chemsem_path)>>
                    ELSE groups[i]]

RECURSIVE AddAllChemsem(_, _)
AddAllChemsem(groups, chemsem_matches) ==
    IF chemsem_matches = <<>> THEN groups
    ELSE AddAllChemsem(
             AddChemsem(groups, Head(chemsem_matches)[1], Head(chemsem_matches)[2]),
             Tail(chemsem_matches))

\* _group_by_position: pos_key -> paths, in insertion order
GroupByPosition(md) ==
    LET valid_images == ValidImages(md)
        chemsem_matches == ChemsemMatches(NormalImages(valid_images),
                                          ChemsemImages(valid_images))
    IN  AddAllChemsem(ExactPositionGroups(valid_images), chemsem_matches)

NoGroups == [done |-> FALSE, groups |-> <<>>]

SceneIdle == positionGroups = NoGroups

(***************************************************************************)
(* Area "func": the functions that keep no state.  A behaviour calls them  *)
(* on arguments drawn from small sets; call holds the name and the         *)
(* arguments of the last call and result what it returned.                 *)
(***************************************************************************)
NoCall == [fn |-> "none"]

NoResult == [kind |-> "none"]

FuncIdle ==
    /\ call = NoCall
    /\ result = NoResult

\* The arguments of _are_positions_similar: two valid records.  A magnification
\* or working distance of PyNone is None, a Collection of "" is no tag.
SimilarRecord(x, y, fov, magnification, wd, collection) ==
    [sample_position_x |-> x, sample_position_y |-> y,
     field_of_view_width |-> fov, field_of_view_height |-> fov,
     magnification |-> magnification, working_distance_mm |-> wd,
     Collection |-> collection]

SimilarFirst ==
    { SimilarRecord(0, 0, fov, m, wd, c) :
        fov \in {5, 100}, m \in {PyNone, 100}, wd \in {PyNone, 10}, c \in {"", "A"} }

SimilarSecond ==
    { SimilarRecord(x, y, fov, m, wd, c) :
        x \in {0, 1, 100}, y \in {0, 1}, fov \in {5, 100},
        m \in {PyNone, 90, 100, 2000}, wd \in {PyNone, 8, 10, 20},
        c \in {"", "A", "B"} }

\* config.get('mode_grid.scene_match_tolerance', 0.2): the configured value
\* (0.01 by default) or 0.2
SceneMatchTolerances == { Rat(1, 100), Rat(2, 10) }

\* min_fov = 10
MinFov == 10

ClampFov(fov) == IF fov < MinFov THEN MinFov ELSE fov

Max2(a, b) == IF a >= b THEN a ELSE b

\* position_match
PositionMatch(m1, m2, tolerance) ==
    LET fov_width == ClampFov(Max2(m1.field_of_view_width, m2.field_of_view_width))
        fov_height == ClampFov(Max2(m1.field_of_view_height, m2.field_of_view_height))
        x_diff == Rat(Abs(m1.sample_position_x - m2.sample_position_x), fov_width)
        y_diff == Rat(Abs(m1.sample_position_y - m2.sample_position_y), fov_height)
    IN  RLe(x_diff, tolerance) /\ RLe(y_diff, tolerance)

\* Python's truth of a number or None
Truthy(v) == v # PyNone /\ v # 0

\* mag_match: mag_tolerance = 0.1
MagMatch(m1, m2) ==
    /\ Truthy(m1.magnification) /\ Truthy(m2.magnification)
    /\ 10 * Abs(m1.magnification - m2.magnification)
          <= Max2(m1.magnification, m2.magnification)

\* wd_match: wd_tolerance = 0.2
WdMatch(m1, m2) ==
    /\ Truthy(m1.working_distance_mm) /\ Truthy(m2.working_distance_mm)
    /\ 10 * Abs(m1.working_distance_mm - m2.working_distance_mm)
          <= 2 * Max2(m1.working_distance_mm, m2.working_distance_mm)

CollectionMatch_Ignored(m1, m2) == FALSE

\* collection_match
CollectionMatch(m1, m2) ==
    /\ m1.Collection # "" /\ m2.Collection # ""
    /\ m1.Collection = m2.Collection

\* the exact match check that comes first
ExactPositionMatch(m1, m2) ==
    /\ m1.sample_position_x = m2.sample_position_x
    /\ m1.sample_position_y = m2.sample_position_y

\* _are_positions_similar(metadata1, metadata2)
ArePositionsSimilar(m1, m2, tolerance) ==
    IF ExactPositionMatch(m1, m2) THEN TRUE
    ELSE \/ PositionMatch(m1, m2, tolerance) /\ (MagMatch(m1, m2) \/ WdMatch(m1, m2))
         \/ CollectionMatch(m1, m2)

(***************************************************************************)
(* workflows/mag_grid.py, _template_match.  The two images come with what  *)
(* the matcher needs of them: whether a metadata object exists, its field  *)
(* of view and magnification, whether cv2.imread could load the file, the  *)
(* image width in pixels, and the best correlation score with its place.   *)
(***************************************************************************)
TemplateRecord(present, fov, magnification) ==
    [present |-> present, field_of_view_width |-> fov, magnification |-> magnification]

TemplateLow ==
    { TemplateRecord(TRUE, fov, 100) : fov \in {PyNone, 0, 100, 1000} }
    \cup { TemplateRecord(FALSE, PyNone, PyNone) }

TemplateHigh ==
    { TemplateRecord(TRUE, fov, m) :
        fov \in {PyNone, 5, 50, 95, 100, 200}, m \in {PyNone, 0, 150, 1000, 20000} }
    \cup { TemplateRecord(FALSE, PyNone, PyNone) }

ImageWidths == {100}
MaxVals == { Rat(4, 10), Rat(5, 10), Rat(9, 10) }
MaxLocs == { <<0, 0>>, <<10, 20>> }

\* self.template_match_threshold = 0.5
TemplateMatchThreshold == Rat(1, 2)

ReturnNone == [kind |-> "None"]

\* scale_factor: the ratio of the fields of view when both are truthy, the
\* ratio of the magnifications otherwise; a None or zero divisor raises.
ScaleFactor(low, high) ==
    IF Truthy(low.field_of_view_width) /\ Truthy(high.field_of_view_width)
    THEN [raised |-> FALSE,
          value |-> Rat(high.field_of_view_width, low.field_of_view_width)]
    ELSE IF low.magnification = PyNone \/ high.magnification = PyNone
            \/ high.magnification = 0
    THEN [raised |-> TRUE, value |-> RZero]
    ELSE [raised |-> FALSE, value |-> Rat(low.magnification, high.magnification)]

\* if scale_factor < 0.01 or scale_factor > 0.9: scale_factor = 0.5
EnsureReasonable(scale_factor) ==
    IF RLt(scale_factor, Rat(1, 100)) \/ RLt(Rat(9, 10), scale_factor)
    THEN Rat(1, 2)
    ELSE scale_factor

\* Rounding to the nearest integer, halves to the even one (the size
\* cv2.resize gives the template), for a non-negative rational.
RoundHalfEven(a) ==
    LET q == a[1] \div a[2]
        r2 == 2 * (a[1] % a[2])
    IN  IF r2 < a[2] THEN q
        ELSE IF r2 > a[2] THEN q + 1
        ELSE IF q % 2 = 0 THEN q ELSE q + 1

\* _template_match(low_img_path, high_img_path)
TemplateMatch(low, high, low_loaded, high_loaded, width, max_val, max_loc) ==
    IF ~low.present \/ ~high.present THEN ReturnNone
    ELSE IF ~low_loaded \/ ~high_loaded THEN ReturnNone
    ELSE LET raw == ScaleFactor(low, high)
         IN  IF raw.raised THEN ReturnNone            \* except Exception
             ELSE LET scale_factor == EnsureReasonable(raw.value)
                      template_w == RoundHalfEven(RMul(RInt(width), scale_factor))
                  IN  IF template_w = 0 \/ template_w > width
                      THEN ReturnNone                 \* cv2 raises, except Exception
                      ELSE IF RLt(max_val, TemplateMatchThreshold) THEN ReturnNone
                      ELSE [kind |-> "rect", x |-> max_loc[1], y |-> max_loc[2],
                            w |-> template_w, h |-> template_w]

(***************************************************************************)
(* workflows/mag_grid.py, _check_containment called on its own: the        *)
(* records it is given are valid ones (discover_collections filters).      *)
(***************************************************************************)
ContainmentRecords ==
    { m \in MagCatalogue : IsValid(m) }
    \cup { Meta("z", "sed", 15, 0, 0, 0, 100, 100) }

(***************************************************************************)
(* workflows/mode_grid.py, _get_mode_from_metadata.  A record carries its  *)
(* filename, detector field, voltage and the four segment weights; the     *)
(* weights are held in additional_params['detectorMixFactors'] (a dict, a  *)
(* missing key is PyNone here), in the detectorMixFactors_bsdX attributes  *)
(* (None is PyNone) or nowhere.                                            *)
(***************************************************************************)
ModeRecord(filename, mode, hv, source, a, b, c, d) ==
    [filename |-> filename, mode |-> mode, high_voltage_kV |-> hv,
     mix_source |-> source, bsdA |-> a, bsdB |-> b, bsdC |-> c, bsdD |-> d]

ModeFilenames == { <<"a", ".tif">>, <<"a", "_ChemiSEM", ".tif">> }
\* The voltage is a float (a rational here); None is NoVoltage.
NoVoltage == <<0, 0>>
ModeVoltages == { NoVoltage, RInt(15), RInt(-5), Rat(146, 10), Rat(-146, 10) }
MixWeights == { PyNone, -2, 1, 2 }

ModeRecords ==
    { ModeRecord(f, mode, hv, source, a, b, c, d) :
        f \in ModeFilenames, mode \in {"Mix", "mix"}, hv \in ModeVoltages,
        source \in {"additional_params", "attributes"},
        a \in MixWeights, b \in MixWeights, c \in MixWeights, d \in MixWeights }
    \cup
    { ModeRecord(f, mode, hv, "absent", PyNone, PyNone, PyNone, PyNone) :
        f \in ModeFilenames, hv \in ModeVoltages,
        mode \in {"None", "SED", "sed", "BSD", "BSD-All", "Mix", "mix", "EDS"} }

\* str.lower() on the detector names of the catalogue
Lower(mode) ==
    CASE mode = "SED" -> "sed"
      [] mode = "BSD" -> "bsd"
      [] mode = "BSD-All" -> "bsd-all"
      [] mode = "Mix" -> "mix"
      [] mode = "EDS" -> "eds"
      [] OTHER -> mode

\* The weight the comparison uses: mix_factors.get(key, 0), or the attribute
\* unless it is None, as a float; 0 when the record holds no weights.
MixFactor(m, w) ==
    IF m.mix_source = "absent" \/ w = PyNone THEN 0 ELSE w

\* Mutant: a tie counts as the horizontal variant.
TopoDirection_TiesHorizontal(bsdA, bsdB, bsdC, bsdD) ==
    IF Abs(bsdB) >= Abs(bsdA) /\ Abs(bsdC) >= Abs(bsdD) THEN "topo-h"
    ELSE IF Abs(bsdA) > Abs(bsdB) /\ Abs(bsdD) > Abs(bsdC) THEN "topo-v"
    ELSE "topo"

\* the topo direction from the mix factors
TopoDirection(bsdA, bsdB, bsdC, bsdD) ==
    IF Abs(bsdB) > Abs(bsdA) /\ Abs(bsdC) > Abs(bsdD) THEN "topo-h"
    ELSE IF Abs(bsdA) > Abs(bsdB) /\ Abs(bsdD) > Abs(bsdC) THEN "topo-v"
    ELSE "topo"

\* f"{mode}_{int(abs(high_voltage_kV))}kv", or the bare mode without a voltage
WithVoltage(detector_mode, hv) ==
    IF hv # NoVoltage
    THEN <<detector_mode, "_">> \o Digits(PyInt(RAbs(hv))) \o <<"kv">>
    ELSE <<detector_mode>>

\* Mutant: the overlay check only applies when no detector rule does.
OverlayCheck_AfterDetector(m) ==
    /\ IsChemiSEM(m.filename)
    /\ m.mode # "None"
    /\ Lower(m.mode) \notin {"sed", "bsd", "bsd-all", "mix"}

\* hasattr(metadata, 'filename') and "ChemiSEM" in metadata.filename
OverlayCheck(m) == IsChemiSEM(m.filename)

\* _get_mode_from_metadata(metadata)
GetModeFromMetadata(m) ==
    IF OverlayCheck(m)
    THEN [kind |-> "str", value |-> WithVoltage("chemsem", m.high_voltage_kV)]
    ELSE IF m.mode = "None"
    THEN [kind |-> "raise"]                  \* metadata.mode.lower() on None
    ELSE LET basic_mode == Lower(m.mode)
             detector_mode ==
                 IF Lower(m.mode) = "mix"
                 THEN TopoDirection(MixFactor(m, m.bsdA), MixFactor(m, m.bsdB),
                                    MixFactor(m, m.bsdC), MixFactor(m, m.bsdD))
                 ELSE IF Lower(m.mode) = "sed" THEN "sed"
                 ELSE IF Lower(m.mode) \in {"bsd", "bsd-all"} THEN "bsd"
                 ELSE basic_mode
         IN  [kind |-> "str", value |-> WithVoltage(detector_mode, m.high_voltage_kV)]

(***************************************************************************)
(* coordinate_matching_test.py, template_match_session_images: one session *)
(* image matched against the overview.  cv2.minMaxLoc hands back the best  *)
(* TM_CCOEFF_NORMED score (between -1 and 1) and where it was found.       *)
(***************************************************************************)
SessionMaxVals == { RInt(-1), Rat(-1, 2), RZero, Rat(1, 2), RInt(1) }
SessionImageSizes == { <<40, 20>>, <<41, 21>> }

\* The entry appended to match_results for the image.
MatchSessionImage(size, max_val, max_loc) ==
    [kind |-> "match",
     match_x |-> max_loc[1] + size[1] \div 2,
     match_y |-> max_loc[2] + size[2] \div 2,
     confidence |-> max_val,
     top_left |-> max_loc,
     width |-> size[1], height |-> size[2]]

(***************************************************************************)
(* Area "session": models/session.py SessionManager, the folder handling   *)
(* of workflows/workflow_base.py (as MagGridWorkflow inherits it) and the  *)
(* handlers of ui/main_window.py that open and close sessions.             *)
(* Paths on disk: A and B are session folders, F exists but cannot be      *)
(* listed (a file, or a folder without read permission), X does not exist. *)
(* An image file or metadata entry is <<folder, file name>>.               *)
(***************************************************************************)
MaxSaved == 2

SessionPaths == {"A", "B", "F", "X"}

\* os.path.exists(folder_path)
PathExists(p) == p \in {"A", "B", "F"}

\* os.listdir(folder_path) does not raise
Listable(p) == p \in {"A", "B"}

\* the .tif / .tiff files at the top level of the folder
ImageFilesIn(p) ==
    CASE p = "A" -> << <<"A", "1.tif">>, <<"A", "2.tif">> >>
      [] p = "B" -> << <<"B", "1.tif">>, <<"B", "2.tif">> >>
      [] OTHER -> <<>>

NoCsvFile == [exists |-> FALSE, rows |-> <<>>]

\* The metadata CSV files at the start: only folder A has one.
DiskCsvInit ==
    [p \in {"A", "B"} |->
        IF p = "A" THEN [exists |-> TRUE, rows |-> ImageFilesIn("A")]
        ELSE NoCsvFile]

\* SessionManager.__init__
SessionManagerInit ==
    [session_folder |-> "None", current_session |-> "None",
     image_files |-> <<>>, metadata |-> <<>>]

\* WorkflowBase.__init__ with no session open: workflow_folder = None
WorkflowInit == [workflow_folder |-> <<>>, collections |-> {}]

\* SessionManager._load_metadata_csv: self.metadata is replaced only when a
\* CSV file is found.
LoadSessionCsv(s, disk) ==
    IF s.session_folder = "None" THEN s
    ELSE IF ~disk[s.session_folder].exists THEN s
    ELSE [s EXCEPT !.metadata = disk[s.session_folder].rows]

\* SessionManager.open_session(folder_path): the value returned and the
\* manager afterwards.
OpenSession(s, folder_path, disk) ==
    IF ~PathExists(folder_path) THEN [returned |-> FALSE, sm |-> s]
    ELSE LET assigned == [s EXCEPT !.session_folder = folder_path,
                                   !.current_session = folder_path]
         IN  IF ~Listable(folder_path)
             THEN \* os.listdir raises after image_files = []
                  [returned |-> FALSE, sm |-> [assigned EXCEPT !.image_files = <<>>]]
             ELSE [returned |-> TRUE,
                   sm |-> LoadSessionCsv(
                            [assigned EXCEPT !.image_files = ImageFilesIn(folder_path)],
                            disk)]

\* SessionManager.close_session
CloseSessionManager(s) ==
    IF s.current_session # "None" THEN SessionManagerInit ELSE s

\* os.path.join(session_folder, workflow_name)
WorkflowFolderOf(session_folder) == <<session_folder, "MagGridWorkflow">>

\* save_collection: "if not self.workflow_folder: self._setup_workflow_folder()"
SetupForSave(w, s) ==
    IF w.workflow_folder = <<>> /\ s.session_folder # "None"
    THEN [w EXCEPT !.workflow_folder = WorkflowFolderOf(s.session_folder)]
    ELSE w

\* discover_collections followed by save_collection of the collection it
\* found (if it found one): the workflow, the files on disk and the folder
\* written to.  Without a session folder the file goes to the temp folder;
\* under a path that is no usable folder os.makedirs raises after
\* workflow_folder is assigned and nothing is written.
DiscoverAndSave(w, s, files, found, n) ==
    IF s.metadata = <<>> \/ ~found
    THEN [wf |-> [w EXCEPT !.collections = {}], stored |-> files, io |-> <<>>]
    ELSE LET w2 == SetupForSave(w, s)
             folder == IF w2.workflow_folder = <<>> THEN <<"tmp">>
                       ELSE w2.workflow_folder
         IN  IF folder[1] = "F"
             THEN [wf |-> [w2 EXCEPT !.collections = {n}], stored |-> files,
                   io |-> <<>>]
             ELSE [wf |-> [w2 EXCEPT !.workflow_folder = folder,
                                     !.collections = {n}],
                   stored |-> files \cup {[folder |-> folder, id |-> n]},
                   io |-> folder]

\* load_collections: every collection file of the workflow folder; nothing
\* is read when there is no workflow folder.
LoadCollections(w, files) ==
    IF w.workflow_folder = <<>>
    THEN [wf |-> [w EXCEPT !.collections = {}], io |-> <<>>]
    ELSE [wf |-> [w EXCEPT !.collections =
                              { c.id : c \in { f \in files : f.folder = w.workflow_folder } }],
          io |-> w.workflow_folder]

NoOpen == [called |-> FALSE, folder_path |-> "None", returned |-> FALSE,
           before |-> SessionManagerInit, after |-> SessionManagerInit]

NoIo == [op |-> "none", folder |-> <<>>, session_folder |-> "None"]

SessionIdle ==
    /\ sm = SessionManagerInit
    /\ wf = WorkflowInit
    /\ diskCsv = DiskCsvInit
    /\ stored = {}
    /\ opened = NoOpen
    /\ lastIo = NoIo

(***************************************************************************)
(* Area "switch": switch_image_alternative of CompareGridWorkflow and      *)
(* ModeGridWorkflow on one collection.  An entry of the collection is its  *)
(* selected path and the list of its alternates.                           *)
(***************************************************************************)
\* The collection as discovery creates it: a fresh alternatives list per entry.
SwitchCollectionInit ==
    << [path |-> "a1", alternatives |-> <<"a2", "a3">>],
       [path |-> "b1", alternatives |-> <<"b2">>],
       [path |-> "c1", alternatives |-> <<>>] >>

SwitchPaths == {"a1", "a2", "a3", "b1", "b2", "c1", "zz"}

InList(x, list) == \E k \in 1..Len(list) : list[k] = x

\* list.remove(x): the first occurrence goes
RemoveFirst(list, x) ==
    LET k == CHOOSE k \in 1..Len(list) :
                 list[k] = x /\ \A m \in 1..(k - 1) : list[m] # x
    IN  SubSeq(list, 1, k - 1) \o SubSeq(list, k + 1, Len(list))

\* Mutant: the path that was selected is not kept as an alternate.
SwapAlternative_DropCurrent(current_image, alternative_path) ==
    [path |-> alternative_path,
     alternatives |-> RemoveFirst(current_image.alternatives, alternative_path)]

\* alternatives.append(current_image["path"]); alternatives.remove(alternative_path);
\* current_image["path"] = alternative_path
SwapAlternative(current_image, alternative_path) ==
    [path |-> alternative_path,
     alternatives |-> RemoveFirst(Append(current_image.alternatives,
                                         current_image.path),
                                  alternative_path)]

\* switch_image_alternative(collection, image_index, alternative_path);
\* image_index counts from 0, alt_metadata is whether metadata was obtained
\* for the alternative.
SwitchImageAlternative(collection, image_index, alternative_path, alt_metadata) ==
    IF image_index < 0 \/ image_index >= Len(collection) THEN collection
    ELSE LET current_image == collection[image_index + 1]
         IN  IF ~InList(alternative_path, current_image.alternatives)
             THEN collection
             ELSE IF ~alt_metadata THEN collection
             ELSE [collection EXCEPT ![image_index + 1] =
                      SwapAlternative(current_image, alternative_path)]

NoSwitch == [called |-> FALSE, image_index |-> 0, alternative_path |-> "zz",
             before |-> SwitchCollectionInit]

SwitchIdle ==
    /\ switchColl = SwitchCollectionInit
    /\ switchLast = NoSwitch

(***************************************************************************)
(* Behaviours: initial states and actions of each area.  An area that a    *)
(* behaviour does not exercise stays in its idle state.                    *)
(***************************************************************************)
InitCoord ==
    /\ area = "coord"
    /\ metadata = <<>>
    /\ MagIdle
    /\ CompareIdle
    /\ SceneIdle
    /\ FuncIdle
    /\ SessionIdle
    /\ SwitchIdle
    /\ overview \in Overviews
    /\ targets \in SeqsUpTo(TargetSet, MaxTargets)
    /\ markers = <<>>
    /\ validated = <<>>
    /\ canvas = CanvasInit
    /\ readout = ReadoutInit

\* _generate_preview: create_grid marks the session images on the overview and
\* _display_image shows the result and sets the canvas coordinate system.
GeneratePreview ==
    /\ area = "coord"
    /\ \E selected \in SelectedChoices :
          markers' = MarkSessionImageLocations(overview, targets, selected)
    /\ canvas' = DisplayImage(overview)
    /\ UNCHANGED <<area, overview, targets, validated, readout, metadata, magVars, compareVars, sceneVars, funcVars, sessionVars, switchVars>>

\* The pointer moves over the displayed image: onto a drawn marker or onto
\* the middle of the displayed image.
PointerPositions ==
    { <<markers[i].x, markers[i].y>> : i \in { j \in 1..Len(markers) : markers[j].drawn } }
    \cup { <<canvas.img_width \div 2, canvas.img_height \div 2>> }

MouseMove ==
    /\ area = "coord"
    /\ canvas.shown
    /\ \E p \in PointerPositions : readout' = OnMouseMove(canvas, p[1], p[2])
    /\ UNCHANGED <<area, overview, targets, markers, validated, canvas, metadata, magVars, compareVars, sceneVars, funcVars, sessionVars, switchVars>>

\* validate_coordinates_with_metadata over one match result per session image.
ValidateCoordinates ==
    /\ area = "coord"
    /\ \E m \in MatchPoints, rotation_direction \in {1, -1} :
          validated' = [i \in 1..Len(targets) |->
                           ValidateOne(overview, targets[i], m, rotation_direction)]
    /\ UNCHANGED <<area, overview, targets, markers, canvas, readout, metadata, magVars, compareVars, sceneVars, funcVars, sessionVars, switchVars>>

NextCoord == GeneratePreview \/ MouseMove \/ ValidateCoordinates

SpecCoord == InitCoord /\ [][NextCoord]_vars

InitMag ==
    /\ area = "mag"
    /\ CoordIdle
    /\ CompareIdle
    /\ SceneIdle
    /\ FuncIdle
    /\ SessionIdle
    /\ SwitchIdle
    /\ metadata \in DistinctSeqsUpTo(MagCatalogue, MaxImages)
    /\ mag = [MagIdleState EXCEPT !.pc = "ready"]
    /\ magCollections = <<>>
    /\ matchOracle = [p \in ImagePairs(metadata) |-> "unknown"]
    /\ tested = {}

\* discover_collections, up to the loop over the groups.
MagDiscover ==
    /\ area = "mag"
    /\ mag.pc \in {"ready", "done"}
    /\ magCollections' = <<>>
    /\ tested' = {}
    /\ mag' = IF Len(metadata) = 0
              THEN [MagIdleState EXCEPT !.pc = "done"]
              ELSE [MagIdleState EXCEPT !.pc = "group",
                                        !.groups = MagGroups(metadata), !.g = 1]
    /\ UNCHANGED <<area, coordVars, compareVars, sceneVars, funcVars, sessionVars, switchVars, metadata, matchOracle>>

\* The next group: sort it and enter _build_mag_pyramids, which returns at
\* once when the group has fewer than two images.
MagNextGroup ==
    /\ area = "mag"
    /\ mag.pc = "group"
    /\ mag' = IF mag.g > Len(mag.groups)
              THEN [mag EXCEPT !.pc = "done"]
              ELSE LET sorted == SortByMag(metadata, mag.groups[mag.g])
                   IN  IF Len(sorted) < 2
                       THEN [mag EXCEPT !.g = mag.g + 1, !.sorted_images = sorted]
                       ELSE [mag EXCEPT !.pc = "head", !.sorted_images = sorted,
                                        !.i = 1]
    /\ UNCHANGED <<area, coordVars, compareVars, sceneVars, funcVars, sessionVars, switchVars, metadata, magCollections, matchOracle, tested>>

\* for i in range(len(sorted_images) - 1): start a pyramid with image i.
MagStartHead ==
    /\ area = "mag"
    /\ mag.pc = "head"
    /\ mag' = IF mag.i > Len(mag.sorted_images) - 1
              THEN [mag EXCEPT !.pc = "group", !.g = mag.g + 1]
              ELSE [mag EXCEPT !.pc = "cand",
                               !.low = mag.sorted_images[mag.i],
                               !.pyramid = <<[img |-> mag.sorted_images[mag.i],
                                              tested_against |-> 0]>>,
                               !.j = mag.i + 1]
    /\ UNCHANGED <<area, coordVars, compareVars, sceneVars, funcVars, sessionVars, switchVars, metadata, magCollections, matchOracle, tested>>

\* for j in range(i + 1, len(sorted_images)): one candidate.  Template
\* matching is called only when the containment test passes; what it finds
\* for a pair of images is fixed the first time the pair is matched.
MagTryCandidate ==
    /\ area = "mag"
    /\ mag.pc = "cand"
    /\ mag.j <= Len(mag.sorted_images)
    /\ LET high == mag.sorted_images[mag.j]
           pair == <<mag.low, high>>
       IN  IF CheckContainment(metadata[mag.low], metadata[high])
           THEN \E outcome \in TemplateOutcomes(metadata[mag.low], metadata[high]) :
                  LET found == MatchRect(outcome)
                  IN  IF found = "raise"
                      THEN \* the exception leaves discover_collections
                           /\ mag' = [mag EXCEPT !.pc = "aborted"]
                           /\ UNCHANGED <<matchOracle, tested>>
                      ELSE /\ matchOracle[pair] \in {"unknown", found}
                           /\ matchOracle' = [matchOracle EXCEPT ![pair] = found]
                           /\ tested' = tested \cup
                                 {[low |-> mag.low, high |-> high, contained |-> TRUE,
                                   matched |-> (found = "match")]}
                           /\ mag' = IF found = "match"
                                     THEN [mag EXCEPT
                                             !.pyramid = Append(mag.pyramid,
                                                 [img |-> high, tested_against |-> mag.low]),
                                             !.low = NextTail(mag.low, high),
                                             !.j = mag.j + 1]
                                     ELSE [mag EXCEPT !.j = mag.j + 1]
           ELSE /\ tested' = tested \cup
                        {[low |-> mag.low, high |-> high, contained |-> FALSE,
                          matched |-> FALSE]}
                /\ mag' = [mag EXCEPT !.j = mag.j + 1]
                /\ UNCHANGED matchOracle
    /\ UNCHANGED <<area, coordVars, compareVars, sceneVars, funcVars, sessionVars, switchVars, metadata, magCollections>>

\* After the last candidate: a pyramid with at least two levels becomes a
\* collection (save_collection gives it an id and writes it).
MagCollection(md, pyramid, n) ==
    [type |-> "MagGrid",
     images |-> pyramid,
     mode |-> md[pyramid[1].img].mode,
     high_voltage |-> md[pyramid[1].img].high_voltage_kV,
     magnifications |-> [k \in 1..Len(pyramid) |-> md[pyramid[k].img].magnification],
     id |-> n]

MagEmit ==
    /\ area = "mag"
    /\ mag.pc = "cand"
    /\ mag.j > Len(mag.sorted_images)
    /\ magCollections' =
          IF Len(mag.pyramid) >= MinPyramidLevels
          THEN Append(magCollections,
                      MagCollection(metadata, mag.pyramid, Len(magCollections) + 1))
          ELSE magCollections
    /\ mag' = [mag EXCEPT !.pc = "head", !.i = mag.i + 1, !.pyramid = <<>>]
    /\ UNCHANGED <<area, coordVars, compareVars, sceneVars, funcVars, sessionVars, switchVars, metadata, matchOracle, tested>>

NextMag ==
    MagDiscover \/ MagNextGroup \/ MagStartHead \/ MagTryCandidate \/ MagEmit

SpecMag == InitMag /\ [][NextMag]_vars

\* CompareGridWorkflow.__init__ with the main session open, over the session
\* folders on disk.
InitCompare ==
    /\ area = "compare"
    /\ CoordIdle
    /\ metadata = <<>>
    /\ MagIdle
    /\ SceneIdle
    /\ FuncIdle
    /\ SessionIdle
    /\ SwitchIdle
    /\ csvFiles \in [SessionFolders -> CsvProfiles]
    /\ \E main \in SessionFolders :
          /\ sessions = <<main>>
          /\ all_metadata = LoadMetadataCsv(main, csvFiles)
    /\ consolidated_metadata = NoFrame
    /\ compareCollections = <<>>
    /\ mode_voltage_combinations = <<>>

\* add_session(session_folder); a folder that is already there changes nothing
AddSession ==
    /\ area = "compare"
    /\ \E session_folder \in SessionFolders :
          /\ \A i \in 1..Len(sessions) : sessions[i] # session_folder
          /\ sessions' = Append(sessions, session_folder)
          /\ all_metadata' =
                DictUpdate(all_metadata, LoadMetadataCsv(session_folder, csvFiles))
          /\ consolidated_metadata' = NoFrame
    /\ UNCHANGED <<area, coordVars, metadata, magVars, sceneVars, funcVars, sessionVars, switchVars,
                   csvFiles, compareCollections, mode_voltage_combinations>>

\* remove_session(session_folder); a folder that is not there changes nothing
RemoveSession ==
    /\ area = "compare"
    /\ \E session_folder \in SessionFolders :
          /\ \E i \in 1..Len(sessions) : sessions[i] = session_folder
          /\ sessions' = RemoveFolder(sessions, session_folder)
          /\ all_metadata' = RemoveByPrefix(all_metadata, session_folder)
          /\ consolidated_metadata' = NoFrame
    /\ UNCHANGED <<area, coordVars, metadata, magVars, sceneVars, funcVars, sessionVars, switchVars,
                   csvFiles, compareCollections, mode_voltage_combinations>>

\* The answers to the "Missing Metadata" question, which is asked only when
\* a session has no metadata CSV.
Responses(missing) == IF missing = <<>> THEN {"not asked"} ELSE {"Yes", "No"}

\* CompareGridWorkflow.discover_collections
DiscoverCompare ==
    /\ area = "compare"
    /\ LET missing == SessionsWithoutMetadata(sessions, csvFiles)
       IN  \E response \in Responses(missing) :
              IF Len(sessions) < 2 \/ response = "Yes"
              THEN /\ compareCollections' = <<>>
                   /\ mode_voltage_combinations' = <<>>
                   /\ UNCHANGED consolidated_metadata
              ELSE LET frame == ConsolidateMetadata(sessions, csvFiles, all_metadata,
                                                   consolidated_metadata)
                       combinations == ModeVoltageCombinationRows(frame.rows)
                   IN  /\ consolidated_metadata' = frame
                       /\ mode_voltage_combinations' = combinations
                       /\ compareCollections' =
                             AllGroupCollections(ModeVoltageGroups(combinations))
    /\ UNCHANGED <<area, coordVars, metadata, magVars, sceneVars, funcVars, sessionVars, switchVars,
                   csvFiles, sessions, all_metadata>>

NextCompare == AddSession \/ RemoveSession \/ DiscoverCompare

SpecCompare == InitCompare /\ [][NextCompare]_vars

\* A session is open and its metadata has been extracted.
InitScene ==
    /\ area = "scene"
    /\ CoordIdle
    /\ MagIdle
    /\ CompareIdle
    /\ FuncIdle
    /\ SessionIdle
    /\ SwitchIdle
    /\ metadata \in ScenePools
    /\ positionGroups = NoGroups

\* ModeGridWorkflow._group_by_position()
GroupScene ==
    /\ area = "scene"
    /\ positionGroups' = [done |-> TRUE, groups |-> GroupByPosition(metadata)]
    /\ UNCHANGED <<area, coordVars, metadata, magVars, compareVars, funcVars, sessionVars, switchVars>>

\* SessionManager.extract_metadata: the metadata is rebuilt in the order in
\* which os.listdir returns the files.
ExtractMetadata ==
    /\ area = "scene"
    /\ \E order \in Permutations(1..Len(metadata)) :
          metadata' = [i \in 1..Len(metadata) |-> metadata[order[i]]]
    /\ positionGroups' = NoGroups
    /\ UNCHANGED <<area, coordVars, magVars, compareVars, funcVars, sessionVars, switchVars>>

NextScene == GroupScene \/ ExtractMetadata

SpecScene == InitScene /\ [][NextScene]_vars

\* No function has been called yet.
InitFunc ==
    /\ area = "func"
    /\ CoordIdle
    /\ metadata = <<>>
    /\ MagIdle
    /\ CompareIdle
    /\ SceneIdle
    /\ FuncIdle
    /\ SessionIdle
    /\ SwitchIdle

\* ModeGridWorkflow._are_positions_similar(metadata1, metadata2)
CallArePositionsSimilar ==
    /\ area = "func"
    /\ call = NoCall
    /\ \E m1 \in SimilarFirst, m2 \in SimilarSecond, tolerance \in SceneMatchTolerances :
          /\ call' = [fn |-> "_are_positions_similar", metadata1 |-> m1,
                      metadata2 |-> m2, scene_match_tolerance |-> tolerance]
          /\ result' = [kind |-> "bool", value |-> ArePositionsSimilar(m1, m2, tolerance)]
    /\ UNCHANGED <<area, coordVars, metadata, magVars, compareVars, sceneVars, sessionVars, switchVars>>

\* MagGridWorkflow._template_match(low_img_path, high_img_path)
CallTemplateMatch ==
    /\ area = "func"
    /\ call = NoCall
    /\ \E low \in TemplateLow, high \in TemplateHigh, low_loaded \in BOOLEAN,
          high_loaded \in BOOLEAN, width \in ImageWidths, max_val \in MaxVals,
          max_loc \in MaxLocs :
          /\ call' = [fn |-> "_template_match", low_metadata |-> low,
                      high_metadata |-> high, low_loaded |-> low_loaded,
                      high_loaded |-> high_loaded, width |-> width,
                      max_val |-> max_val, max_loc |-> max_loc]
          /\ result' = TemplateMatch(low, high, low_loaded, high_loaded, width,
                                     max_val, max_loc)
    /\ UNCHANGED <<area, coordVars, metadata, magVars, compareVars, sceneVars, sessionVars, switchVars>>

\* MagGridWorkflow._check_containment(low_metadata, high_metadata)
CallCheckContainment ==
    /\ area = "func"
    /\ call = NoCall
    /\ \E low \in ContainmentRecords, high \in ContainmentRecords :
          /\ call' = [fn |-> "_check_containment", low_metadata |-> low,
                      high_metadata |-> high]
          /\ result' = [kind |-> "bool", value |-> CheckContainment(low, high)]
    /\ UNCHANGED <<area, coordVars, metadata, magVars, compareVars, sceneVars, sessionVars, switchVars>>

\* ModeGridWorkflow._get_mode_from_metadata(metadata)
CallGetModeFromMetadata ==
    /\ area = "func"
    /\ call = NoCall
    /\ \E m \in ModeRecords :
          /\ call' = [fn |-> "_get_mode_from_metadata", metadata |-> m]
          /\ result' = GetModeFromMetadata(m)
    /\ UNCHANGED <<area, coordVars, metadata, magVars, compareVars, sceneVars, sessionVars, switchVars>>

\* template_match_session_images, the body of the loop for one session image
CallMatchSessionImage ==
    /\ area = "func"
    /\ call = NoCall
    /\ \E size \in SessionImageSizes, max_val \in SessionMaxVals, max_loc \in MaxLocs :
          /\ call' = [fn |-> "template_match_session_images", size |-> size,
                      max_val |-> max_val, max_loc |-> max_loc]
          /\ result' = MatchSessionImage(size, max_val, max_loc)
    /\ UNCHANGED <<area, coordVars, metadata, magVars, compareVars, sceneVars, sessionVars, switchVars>>

\* The function returns; nothing of the call is kept (the functions are
\* stateless).
Return ==
    /\ area = "func"
    /\ call # NoCall
    /\ call' = NoCall
    /\ result' = NoResult
    /\ UNCHANGED <<area, coordVars, metadata, magVars, compareVars, sceneVars, sessionVars, switchVars>>

NextFunc ==
    \/ CallArePositionsSimilar
    \/ CallTemplateMatch
    \/ CallCheckContainment
    \/ CallGetModeFromMetadata
    \/ CallMatchSessionImage
    \/ Return

SpecFunc == InitFunc /\ [][NextFunc]_vars

\* The whole program: a behaviour exercises one of the areas.
InitSession ==
    /\ area = "session"
    /\ CoordIdle
    /\ metadata = <<>>
    /\ MagIdle
    /\ CompareIdle
    /\ SceneIdle
    /\ FuncIdle
    /\ SessionIdle
    /\ SwitchIdle

\* MainWindow._extract_metadata for the open session: the metadata of every
\* image file replaces session_manager.metadata, the CSV is written, then
\* _discover_collections runs the workflow's discovery.
ExtractAndDiscover(s, w, disk, files, found) ==
    LET s2 == [s EXCEPT !.metadata = s.image_files]
        disk2 == IF s2.metadata # <<>> /\ s2.session_folder \in DOMAIN disk
                 THEN [disk EXCEPT ![s2.session_folder] =
                                       [exists |-> TRUE, rows |-> s2.metadata]]
                 ELSE disk
        d == DiscoverAndSave(w, s2, files, found, Cardinality(files) + 1)
    IN  [sm |-> s2, wf |-> d.wf, diskCsv |-> disk2, stored |-> d.stored, io |-> d.io]

\* MainWindow._load_session(folder_path): open_session, the question about
\* extracting metadata when there is no metadata.csv, then load_collections.
LoadSession ==
    /\ area = "session"
    /\ \E folder_path \in SessionPaths, reply \in {"Yes", "No"}, found \in BOOLEAN :
          LET o == OpenSession(sm, folder_path, diskCsv)
              asked == o.returned /\ ~diskCsv[folder_path].exists
              e == IF asked /\ reply = "Yes"
                   THEN ExtractAndDiscover(o.sm, wf, diskCsv, stored, found)
                   ELSE [sm |-> o.sm, wf |-> wf, diskCsv |-> diskCsv,
                         stored |-> stored, io |-> <<>>]
              l == IF o.returned THEN LoadCollections(e.wf, e.stored)
                   ELSE [wf |-> e.wf, io |-> <<>>]
          IN  /\ (asked \/ reply = "No")
              /\ (asked /\ reply = "Yes" /\ Len(e.sm.metadata) >= 2
                     /\ Cardinality(stored) < MaxSaved) \/ ~found
              /\ opened' = [called |-> TRUE, folder_path |-> folder_path,
                            returned |-> o.returned, before |-> sm, after |-> o.sm]
              /\ sm' = e.sm
              /\ diskCsv' = e.diskCsv
              /\ stored' = e.stored
              /\ wf' = l.wf
              /\ lastIo' = IF l.io # <<>>
                           THEN [op |-> "load", folder |-> l.io,
                                 session_folder |-> e.sm.session_folder]
                           ELSE IF e.io # <<>>
                           THEN [op |-> "save", folder |-> e.io,
                                 session_folder |-> e.sm.session_folder]
                           ELSE lastIo
    /\ UNCHANGED <<area, coordVars, metadata, magVars, compareVars, sceneVars, funcVars, switchVars>>

\* MainWindow._close_session
CloseSession ==
    /\ area = "session"
    /\ sm.current_session # "None"
    /\ sm' = CloseSessionManager(sm)
    /\ UNCHANGED <<area, coordVars, metadata, magVars, compareVars, sceneVars, funcVars, switchVars,
                   wf, diskCsv, stored, opened, lastIo>>

\* MainWindow.refresh_collections: the current workflow's discover_collections
RefreshCollections ==
    /\ area = "session"
    /\ \E found \in BOOLEAN :
          LET d == DiscoverAndSave(wf, sm, stored, found, Cardinality(stored) + 1)
          IN  /\ (Len(sm.metadata) >= 2 /\ Cardinality(stored) < MaxSaved) \/ ~found
              /\ wf' = d.wf
              /\ stored' = d.stored
              /\ lastIo' = IF d.io # <<>>
                           THEN [op |-> "save", folder |-> d.io,
                                 session_folder |-> sm.session_folder]
                           ELSE lastIo
    /\ UNCHANGED <<area, coordVars, metadata, magVars, compareVars, sceneVars, funcVars, switchVars,
                   sm, diskCsv, opened>>

NextSession == LoadSession \/ CloseSession \/ RefreshCollections

SpecSession == InitSession /\ [][NextSession]_vars

InitSwitch ==
    /\ area = "switch"
    /\ CoordIdle
    /\ metadata = <<>>
    /\ MagIdle
    /\ CompareIdle
    /\ SceneIdle
    /\ FuncIdle
    /\ SessionIdle
    /\ SwitchIdle

\* One call of switch_image_alternative on the collection
CallSwitchImageAlternative ==
    /\ area = "switch"
    /\ \E image_index \in -1..Len(switchColl), alternative_path \in SwitchPaths,
          alt_metadata \in BOOLEAN :
          /\ switchColl' = SwitchImageAlternative(switchColl, image_index,
                                                  alternative_path, alt_metadata)
          /\ switchLast' = [called |-> TRUE, image_index |-> image_index,
                            alternative_path |-> alternative_path,
                            before |-> switchColl]
    /\ UNCHANGED <<area, coordVars, metadata, magVars, compareVars, sceneVars, funcVars, sessionVars>>

NextSwitch == CallSwitchImageAlternative

SpecSwitch == InitSwitch /\ [][NextSwitch]_vars

Init ==
    InitCoord \/ InitMag \/ InitCompare \/ InitScene \/ InitFunc
        \/ InitSession \/ InitSwitch

Next ==
    NextCoord \/ NextMag \/ NextCompare \/ NextScene \/ NextFunc
        \/ NextSession \/ NextSwitch

Spec == Init /\ [][Next]_vars

(***************************************************************************)
(* Claims about the coordinate conversions.                                *)
(***************************************************************************)
ZeroRotationNonZeroPixel ==
    /\ area = "coord"
    /\ overview.scan_rotation = 0
    /\ UmPerPixelX(overview) # RZero
    /\ UmPerPixelY(overview) # RZero

\* An entry (of markers or validated) follows the negate-both-axes convention.
NegatesBothAxes(e) ==
    /\ RMul(e.dx_pixels, UmPerPixelX(overview)) = RInt(-(e.pos_x - overview.center_x))
    /\ RMul(e.dy_pixels, UmPerPixelY(overview)) = RInt(-(e.pos_y - overview.center_y))

\* Within one list, a larger physical coordinate gives a smaller pixel offset.
OppositeOrder(list) ==
    \A i, j \in 1..Len(list) :
        /\ list[i].pos_x > list[j].pos_x => RLt(list[i].dx_pixels, list[j].dx_pixels)
        /\ list[i].pos_y > list[j].pos_y => RLt(list[i].dy_pixels, list[j].dy_pixels)

\* C1: with zero rotation and a non-zero pixel size, every place that converts
\* a physical offset to a pixel offset negates both axes
\* (dx_px = -dx_um / um_per_pixel_x, dy_px = -dy_um / um_per_pixel_y), so a
\* larger physical X or Y lands at a smaller pixel X or Y; this holds for the
\* overview annotation and for the metadata validation alike.
C1_SignConvention ==
    ZeroRotationNonZeroPixel =>
        /\ \A i \in 1..Len(markers) : NegatesBothAxes(markers[i])
        /\ OppositeOrder(markers)
        /\ \A i \in 1..Len(validated) : NegatesBothAxes(validated[i])
        /\ OppositeOrder(validated)

\* C2: with zero rotation and non-zero pixel sizes, reading the coordinates
\* back at the pixel where a marker was placed recovers the marker's physical
\* X and Y, up to the one pixel lost in rounding.
C2_RoundTrip ==
    (ZeroRotationNonZeroPixel /\ readout.taken) =>
        \A i \in 1..Len(markers) :
            (markers[i].drawn /\ markers[i].x = readout.xdata
                              /\ markers[i].y = readout.ydata) =>
                /\ RLe(RAbs(RSub(readout.microscope_x, RInt(markers[i].pos_x))),
                       UmPerPixelX(overview))
                /\ RLe(RAbs(RSub(readout.microscope_y, RInt(markers[i].pos_y))),
                       UmPerPixelY(overview))

(***************************************************************************)
(* Claims about pyramid discovery.                                         *)
(***************************************************************************)
\* The rectangle center -+ size / 2 of inner lies inside that of outer.
RectInside(outer, inner) ==
    LET lo(c, sz) == RSub(RInt(c), Rat(sz, 2))
        hi(c, sz) == RAdd(RInt(c), Rat(sz, 2))
    IN  /\ RLe(lo(outer.sample_position_x, outer.field_of_view_width),
               lo(inner.sample_position_x, inner.field_of_view_width))
        /\ RLe(hi(inner.sample_position_x, inner.field_of_view_width),
               hi(outer.sample_position_x, outer.field_of_view_width))
        /\ RLe(lo(outer.sample_position_y, outer.field_of_view_height),
               lo(inner.sample_position_y, inner.field_of_view_height))
        /\ RLe(hi(inner.sample_position_y, inner.field_of_view_height),
               hi(outer.sample_position_y, outer.field_of_view_height))

RectStrictlyInside(outer, inner) ==
    LET lo(c, sz) == RSub(RInt(c), Rat(sz, 2))
        hi(c, sz) == RAdd(RInt(c), Rat(sz, 2))
    IN  /\ RLt(lo(outer.sample_position_x, outer.field_of_view_width),
               lo(inner.sample_position_x, inner.field_of_view_width))
        /\ RLt(hi(inner.sample_position_x, inner.field_of_view_width),
               hi(outer.sample_position_x, outer.field_of_view_width))
        /\ RLt(lo(outer.sample_position_y, outer.field_of_view_height),
               lo(inner.sample_position_y, inner.field_of_view_height))
        /\ RLt(hi(inner.sample_position_y, inner.field_of_view_height),
               hi(outer.sample_position_y, outer.field_of_view_height))

\* Every member after the first was tested (and passed) against its predecessor.
ChainLinked(chain) ==
    \A k \in 2..Len(chain) :
        LET prev == metadata[chain[k - 1].img]
            cur == metadata[chain[k].img]
        IN  /\ chain[k].tested_against = chain[k - 1].img
            /\ [low |-> chain[k - 1].img, high |-> chain[k].img,
                contained |-> TRUE, matched |-> TRUE] \in tested
            /\ cur.mode = prev.mode
            /\ cur.high_voltage_kV = prev.high_voltage_kV
            /\ RLe(RMul(Rat(3, 2), RInt(prev.magnification)), RInt(cur.magnification))
            /\ RectInside(prev, cur)

C3_LinksOk ==
    area = "mag" =>
        /\ ChainLinked(mag.pyramid)
        /\ \A n \in 1..Len(magCollections) : ChainLinked(magCollections[n].images)

\* A step that tests a candidate which fails (containment or matching).
C3_CandidateFails ==
    /\ area = "mag"
    /\ mag.pc = "cand"
    /\ mag.j <= Len(mag.sorted_images)
    /\ mag'.j = mag.j + 1
    /\ \E e \in tested' :
          /\ e.low = mag.low
          /\ e.high = mag.sorted_images[mag.j]
          /\ ~e.matched

ScenarioNested ==
    /\ area = "mag"
    /\ Len(metadata) = 3
    /\ \A i \in 1..3 : IsValid(metadata[i])
    /\ \A i, j \in 1..3 :
          /\ metadata[i].mode = metadata[j].mode
          /\ metadata[i].high_voltage_kV = metadata[j].high_voltage_kV
    /\ \E i, j, k \in 1..3 :
          /\ metadata[i].magnification = 100
          /\ metadata[j].magnification = 500
          /\ metadata[k].magnification = 2000
          /\ RectStrictlyInside(metadata[i], metadata[j])
          /\ RectStrictlyInside(metadata[j], metadata[k])

EveryMatchSucceeded == \A e \in tested : e.contained => e.matched

ReturnedChains == [n \in 1..Len(magCollections) |-> magCollections[n].magnifications]

\* C4 as stated: in the scenario, with every template match succeeding, the
\* returned list consists of one chain, 100, 500, 2000.
C4_OneChain ==
    (ScenarioNested /\ mag.pc = "done" /\ EveryMatchSucceeded) =>
        ReturnedChains = << <<100, 500, 2000>> >>

\* C4 (amended): in the scenario, with every template match succeeding, the
\* returned list consists of two chains: 100, 500, 2000 and then 500, 2000
\* (the 500 record also heads a chain of its own).
C4_TwoChains ==
    (ScenarioNested /\ mag.pc = "done" /\ EveryMatchSucceeded) =>
        ReturnedChains = << <<100, 500, 2000>>, <<500, 2000>> >>

C4_Witness ==
    /\ ScenarioNested /\ mag.pc = "done" /\ EveryMatchSucceeded
    /\ Len(magCollections) = 2

(***************************************************************************)
(* Claims about failures and the order of the tests in pyramid discovery.  *)
(***************************************************************************)
\* The sorted image lists of the groups of the pool.
SortedGroups ==
    [g \in 1..Len(MagGroups(metadata)) |-> SortByMag(metadata, MagGroups(metadata)[g])]

\* Head i of a sorted group and each of its candidates have been tested: the
\* candidate against the head or against a member that came after the head.
HeadProcessed(sorted, i) ==
    \A j \in (i + 1)..Len(sorted) :
        \E t \in tested :
            /\ t.high = sorted[j]
            /\ t.low \in { sorted[k] : k \in i..(j - 1) }

\* A template match on this pair cannot succeed: an image cannot be loaded or
\* the matcher raises.
FailsInMatcher(t, images) ==
    /\ t.contained
    /\ ~t.matched
    /\ \/ metadata[t.low].image_path \in images
       \/ metadata[t.high].image_path \in images

\* C16: a failure on one record or one pair (invalid metadata, an unreadable
\* image, an exception inside template matching) never aborts discovery: the
\* invalid record is left out, the failing pair is skipped, and when discovery
\* ends every chain head of every group and each of its candidates has been
\* processed.
C16_FailureNeverAborts ==
    area = "mag" =>
        /\ mag.pc # "aborted"
        /\ \A t \in tested : IsValid(metadata[t.low]) /\ IsValid(metadata[t.high])
        /\ mag.pc = "done" =>
              \A g \in 1..Len(SortedGroups) :
                  \A i \in 1..(Len(SortedGroups[g]) - 1) :
                      HeadProcessed(SortedGroups[g], i)

\* C16 witness: discovery ended on a pool with an invalid record, after one
\* pair failed on an unreadable image and a pair of a later head failed on an
\* exception in the matcher.
C16_Witness ==
    /\ area = "mag"
    /\ mag.pc = "done"
    /\ \E i \in 1..Len(metadata) : ~IsValid(metadata[i])
    /\ \E t1, t2 \in tested :
          /\ FailsInMatcher(t1, UnreadableImages)
          /\ FailsInMatcher(t2, RaisingImages)
          /\ t1.low # t2.low

\* The candidate passes the containment test against the tail: same mode and
\* voltage, at least 1.5 times the magnification, field of view inside.
PassesContainment(low, high) ==
    /\ low.mode = high.mode
    /\ low.high_voltage_kV = high.high_voltage_kV
    /\ 2 * high.magnification >= 3 * low.magnification
    /\ RectInside(low, high)

\* C18: template matching has been run only on pairs that pass the
\* containment test, and every member appended to a chain passes it against
\* the member it was tested against.
C18_MatchOnlyAfterContainment ==
    area = "mag" =>
        /\ \A p \in DOMAIN matchOracle :
              matchOracle[p] # "unknown" =>
                  PassesContainment(metadata[p[1]], metadata[p[2]])
        /\ \A t \in tested :
              t.matched => PassesContainment(metadata[t.low], metadata[t.high])
        /\ \A k \in 2..Len(mag.pyramid) :
              PassesContainment(metadata[mag.pyramid[k].tested_against],
                                metadata[mag.pyramid[k].img])
        /\ \A n \in 1..Len(magCollections) :
              \A k \in 2..Len(magCollections[n].images) :
                  PassesContainment(
                      metadata[magCollections[n].images[k].tested_against],
                      metadata[magCollections[n].images[k].img])

\* C18 witness: one candidate failed containment and was neither matched
\* nor appended, another passed it, was matched and appended.
C18_Witness ==
    /\ area = "mag"
    /\ \E t \in tested :
          /\ ~t.contained
          /\ matchOracle[<<t.low, t.high>>] = "unknown"
          /\ \A n \in 1..Len(magCollections) :
                \A k \in 2..Len(magCollections[n].images) :
                    ~(/\ magCollections[n].images[k].img = t.high
                      /\ magCollections[n].images[k].tested_against = t.low)
    /\ \E t \in tested : t.contained /\ t.matched
    /\ Len(magCollections) >= 1

(***************************************************************************)
(* Claims about the cross-session comparison (area "compare").             *)
(***************************************************************************)
SeqToSet(q) == { q[i] : i \in 1..Len(q) }

\* The folders whose selected image in collection c has a magnification that
\* is a member of the collection's magnification group.
InBandSessions(c) ==
    { c.images[k].session_folder :
        k \in { j \in 1..Len(c.images) :
                  c.images[j].magnification \in SeqToSet(c.mag_group) } }

\* C5: a cross-session collection is emitted for a magnification band only if
\* at least two distinct sessions each contributed a selected image whose
\* magnification belongs to that band.
C5_TwoSessionsInBand ==
    \A i \in 1..Len(compareCollections) :
        Cardinality(InBandSessions(compareCollections[i])) >= 2

\* The images of a session folder that have the collection's mode and voltage
\* and a magnification in the collection's magnification group.
SameBandImages(c, session_folder) ==
    { m \in SeqToSet(LoadMetadataCsv(session_folder, csvFiles)) :
        /\ m.mode = c.mode
        /\ m.high_voltage_kV = c.high_voltage
        /\ m.magnification \in SeqToSet(c.mag_group) }

Distance(magnification, representative_mag) ==
    RAbs(RSub(RInt(magnification), representative_mag))

\* C6: within a collection each session's selected image is the one whose
\* magnification is closest to the band's representative magnification, and
\* all other same-band images of that session are its alternates, however
\* many there are.
C6_ClosestAndAllAlternates ==
    \A i \in 1..Len(compareCollections) :
        LET c == compareCollections[i]
        IN  \A k \in 1..Len(c.images) :
               LET e == c.images[k]
                   band == SameBandImages(c, e.session_folder)
               IN  /\ \E m \in band : m.image_path = e.path
                   /\ \A m \in band :
                         RLe(Distance(e.magnification, c.representative_mag),
                             Distance(m.magnification, c.representative_mag))
                   /\ SeqToSet(e.alternatives)
                         = { m.image_path : m \in band } \ {e.path}

RECURSIVE Flatten(_)
Flatten(groups) ==
    IF groups = <<>> THEN <<>> ELSE Head(groups) \o Flatten(Tail(groups))

Within12Percent(m, lowest) == 100 * (m - lowest) <= 12 * lowest

\* The groups are what one ascending sweep over mags makes: in order, every
\* member within 12% of its band's lowest member, and every band started by
\* a magnification that is more than 12% above the previous band's lowest.
IsAscendingSweep(mags, groups) ==
    /\ \A i \in 1..(Len(mags) - 1) : mags[i] < mags[i + 1]
    /\ Flatten(groups) = mags
    /\ \A b \in 1..Len(groups) :
          /\ groups[b] # <<>>
          /\ \A i \in 1..Len(groups[b]) :
                Within12Percent(groups[b][i], groups[b][1])
    /\ \A b \in 1..(Len(groups) - 1) :
          ~Within12Percent(groups[b + 1][1], groups[b][1])

\* C7: the distinct magnifications of a (mode, voltage) group are partitioned
\* into bands by one ascending sweep: a magnification joins the current band
\* when it is within 12% of the band's lowest member and starts a new band
\* otherwise, so every magnification is in exactly one band; 98, 102, 205
\* gives the bands [98, 102] and [205].
C7_BandSweep ==
    \A g \in 1..Len(mode_voltage_combinations) :
        LET c == mode_voltage_combinations[g]
            mags == c.magnifications
        IN  /\ c.session_count >= 2 =>
                  SeqToSet(mags)
                     = { c.data[i].magnification : i \in 1..Len(c.data) } \ {PyNone}
            /\ IsAscendingSweep(mags, c.mag_groups)
            /\ \A m \in SeqToSet(mags) :
                  Cardinality({ b \in 1..Len(c.mag_groups) :
                                  m \in SeqToSet(c.mag_groups[b]) }) = 1
            /\ mags = <<98, 102, 205>> => c.mag_groups = << <<98, 102>>, <<205>> >>

\* C7 witness: a discovery over two sessions has banded 98, 102, 205.
C7_Witness ==
    \E g \in 1..Len(mode_voltage_combinations) :
        LET c == mode_voltage_combinations[g]
        IN  /\ c.session_count >= 2
            /\ c.magnifications = <<98, 102, 205>>
            /\ c.mag_groups = << <<98, 102>>, <<205>> >>

\* A discovery has put a magnification exactly 12% above the lowest member
\* of a band into that band.
C7_BoundaryReached ==
    \E g \in 1..Len(mode_voltage_combinations) :
        \E b \in 1..Len(mode_voltage_combinations[g].mag_groups) :
            LET band == mode_voltage_combinations[g].mag_groups[b]
            IN  band[1] = 100 /\ 112 \in SeqToSet(band)

\* The folders that really hold an image of the combination's rows.
PoolsOf(c) == { Dirname(c.data[i].image_path) : i \in 1..Len(c.data) }

\* C8: collections are built only for (mode, voltage) pairs that appear in
\* the metadata of at least two distinct session pools, and two sessions added
\* from different folders count as two distinct pools.
C8_DistinctPools ==
    \A g \in 1..Len(mode_voltage_combinations) :
        LET c == mode_voltage_combinations[g]
        IN  /\ c.session_count >= 2 => Cardinality(PoolsOf(c)) >= 2
            /\ c.session_count
                  = Cardinality({ c.data[i].session_folder : i \in 1..Len(c.data) })

(***************************************************************************)
(* Claims about the grouping by position (area "scene").                   *)
(***************************************************************************)
\* The valid primary (non-overlay) records of the pool.
IsPrimary(m) == IsValid(m) /\ ~IsChemiSEM(m.filename)

SameGroup(groups, p1, p2) ==
    \E g \in 1..Len(groups) : Contains(groups[g][2], p1) /\ Contains(groups[g][2], p2)

\* C9: two valid primary records are placed in the same position group if and
\* only if their X values are identical and their Y values are identical; no
\* tolerance is applied.
C9_SameGroupIffSamePosition ==
    positionGroups.done =>
        \A i, j \in 1..Len(metadata) :
            (i # j /\ IsPrimary(metadata[i]) /\ IsPrimary(metadata[j])) =>
                (SameGroup(positionGroups.groups,
                           metadata[i].image_path, metadata[j].image_path)
                 <=> (/\ metadata[i].sample_position_x = metadata[j].sample_position_x
                      /\ metadata[i].sample_position_y = metadata[j].sample_position_y))

\* C9 witness: a grouping has put two primaries of one position together and
\* has kept apart a primary with the same X and another Y.
C9_Witness ==
    /\ positionGroups.done
    /\ \E i, j, k \in 1..Len(metadata) :
          /\ i # j /\ IsPrimary(metadata[i]) /\ IsPrimary(metadata[j]) /\ IsPrimary(metadata[k])
          /\ metadata[i].sample_position_x = metadata[j].sample_position_x
          /\ metadata[i].sample_position_y = metadata[j].sample_position_y
          /\ metadata[k].sample_position_x = metadata[i].sample_position_x
          /\ metadata[k].sample_position_y # metadata[i].sample_position_y
          /\ SameGroup(positionGroups.groups,
                       metadata[i].image_path, metadata[j].image_path)
          /\ ~SameGroup(positionGroups.groups,
                        metadata[i].image_path, metadata[k].image_path)

\* The groups as a set of sets of members.
GroupSets(groups) == { SeqToSet(groups[g][2]) : g \in 1..Len(groups) }

\* C10: the grouping does not depend on the order of the records: every
\* permutation of the pool gives the same set of groups, each with the same
\* members, overlays included.
C10_OrderIndependent ==
    positionGroups.done =>
        \A order \in Permutations(1..Len(metadata)) :
            GroupSets(GroupByPosition([i \in 1..Len(metadata) |-> metadata[order[i]]]))
               = GroupSets(positionGroups.groups)

\* A valid overlay (ChemiSEM) record.
IsOverlay(m) == IsValid(m) /\ IsChemiSEM(m.filename)

\* C11: every overlay record that shares its base filename with a primary
\* record of the pool ends up in the same position group as that primary.
C11_OverlayWithItsPrimary ==
    positionGroups.done =>
        \A i, j \in 1..Len(metadata) :
            (/\ IsOverlay(metadata[i])
             /\ IsPrimary(metadata[j])
             /\ ChemsemBaseName(metadata[i].filename)
                   = NormalBaseName(metadata[j].filename)) =>
                SameGroup(positionGroups.groups,
                          metadata[i].image_path, metadata[j].image_path)

(***************************************************************************)
(* Claims about a zero pixel size (coord area).                            *)
(***************************************************************************)
\* C14: when the overview's pixel size is zero, no record gets a pixel
\* position: nothing is marked on the overview and nothing is compared with a
\* match (the record is skipped, no default stands in for the missing value).
C14_ZeroPixelSizeSkips ==
    UmPerPixelX(overview) = RZero =>
        /\ \A i \in 1..Len(markers) : ~markers[i].drawn
        /\ validated = <<>>

(***************************************************************************)
(* Claims about the scene similarity test (_are_positions_similar).        *)
(***************************************************************************)
SimilarCalled == call.fn = "_are_positions_similar"

\* The two records carry the same non-empty grouping tag.
EqualTag(m1, m2) == m1.Collection # "" /\ m1.Collection = m2.Collection

\* The positions agree within the tolerance, as fractions of the larger field
\* of view (at least 10 um).
PositionsAgree(m1, m2, tolerance) ==
    LET fov == IF Max2(m1.field_of_view_width, m2.field_of_view_width) < 10 THEN 10
               ELSE Max2(m1.field_of_view_width, m2.field_of_view_width)
    IN  /\ RLe(Rat(Abs(m1.sample_position_x - m2.sample_position_x), fov), tolerance)
        /\ RLe(Rat(Abs(m1.sample_position_y - m2.sample_position_y), fov), tolerance)

MagnificationsAgree(m1, m2) ==
    /\ m1.magnification \notin {PyNone, 0} /\ m2.magnification \notin {PyNone, 0}
    /\ 10 * Abs(m1.magnification - m2.magnification)
          <= Max2(m1.magnification, m2.magnification)

WorkingDistancesAgree(m1, m2) ==
    /\ m1.working_distance_mm \notin {PyNone, 0}
    /\ m2.working_distance_mm \notin {PyNone, 0}
    /\ 10 * Abs(m1.working_distance_mm - m2.working_distance_mm)
          <= 2 * Max2(m1.working_distance_mm, m2.working_distance_mm)

\* C12: two records without an equal grouping tag are judged the same scene
\* only if their positions agree within the tolerance and, in addition, their
\* magnifications agree within 10% or their working distances within 20%.
C12_PositionAloneNotEnough ==
    (SimilarCalled /\ ~EqualTag(call.metadata1, call.metadata2) /\ result.value) =>
        /\ PositionsAgree(call.metadata1, call.metadata2, call.scene_match_tolerance)
        /\ \/ MagnificationsAgree(call.metadata1, call.metadata2)
           \/ WorkingDistancesAgree(call.metadata1, call.metadata2)

\* C13: two records with the same non-empty grouping tag are always judged
\* to be the same scene, whatever their positions, magnifications and working
\* distances.
C13_EqualTagAlwaysMatches ==
    (SimilarCalled /\ EqualTag(call.metadata1, call.metadata2)) => result.value

\* C13 witness: two records with the same tag that are far apart and agree in
\* neither magnification nor working distance were judged the same scene.
C13_Witness ==
    /\ SimilarCalled
    /\ EqualTag(call.metadata1, call.metadata2)
    /\ ~PositionsAgree(call.metadata1, call.metadata2, call.scene_match_tolerance)
    /\ ~MagnificationsAgree(call.metadata1, call.metadata2)
    /\ ~WorkingDistancesAgree(call.metadata1, call.metadata2)
    /\ result.value

(***************************************************************************)
(* Claims about template matching (_template_match).                       *)
(***************************************************************************)
TemplateMatchCalled == call.fn = "_template_match"

\* The scale factor of the call is computed from the fields of view and lies
\* outside [0.01, 0.9].
FovScaleOutOfRange(low, high) ==
    /\ low.present /\ high.present
    /\ low.field_of_view_width \notin {PyNone, 0}
    /\ high.field_of_view_width \notin {PyNone, 0}
    /\ \/ 100 * high.field_of_view_width < low.field_of_view_width
       \/ 10 * high.field_of_view_width > 9 * low.field_of_view_width

\* C15: when the scale factor computed for template matching lies outside
\* [0.01, 0.9], the match attempt fails and no match rectangle is returned.
C15_OutOfRangeScaleFails ==
    (TemplateMatchCalled /\ FovScaleOutOfRange(call.low_metadata, call.high_metadata)) =>
        result.kind = "None"

(***************************************************************************)
(* Claims about the containment test (_check_containment).                 *)
(***************************************************************************)
\* C17: the containment test is reflexive: a record tested against itself
\* (same center, same field of view) is contained.
C17_ContainmentReflexive ==
    (call.fn = "_check_containment" /\ call.low_metadata = call.high_metadata) =>
        result.value

(***************************************************************************)
(* Claims about the mode label (_get_mode_from_metadata).                  *)
(***************************************************************************)
GetModeCalled == call.fn = "_get_mode_from_metadata"

\* The magnitude of a segment weight; a missing weight has magnitude 0.
Magnitude(m, w) ==
    IF m.mix_source = "absent" \/ w = PyNone THEN 0
    ELSE IF w < 0 THEN -w ELSE w

\* A record of the mixed configuration that is not an overlay.
IsMixRecord(m) ==
    /\ ~IsChemiSEM(m.filename)
    /\ m.mode \in {"Mix", "mix"}

Horizontal(m) ==
    /\ Magnitude(m, m.bsdB) > Magnitude(m, m.bsdA)
    /\ Magnitude(m, m.bsdC) > Magnitude(m, m.bsdD)

Vertical(m) ==
    /\ Magnitude(m, m.bsdA) > Magnitude(m, m.bsdB)
    /\ Magnitude(m, m.bsdD) > Magnitude(m, m.bsdC)

C20_OverlayLabel ==
    (GetModeCalled /\ IsChemiSEM(call.metadata.filename)) =>
        /\ result.kind = "str"
        /\ result.value[1] = "chemsem"
        /\ call.metadata.high_voltage_kV = NoVoltage => Len(result.value) = 1
        /\ call.metadata.high_voltage_kV # NoVoltage =>
              /\ Len(result.value) > 1
              /\ result.value[2] = "_"
              /\ result.value[Len(result.value)] = "kv"

\* C20 witness: a ChemiSEM record of the mixed configuration with weights of
\* the horizontal variant and a known voltage was labelled chemsem_15kv.
C20_Witness ==
    /\ GetModeCalled
    /\ IsChemiSEM(call.metadata.filename)
    /\ call.metadata.mode = "mix"
    /\ call.metadata.mix_source # "absent"
    /\ Horizontal(call.metadata)
    /\ call.metadata.high_voltage_kV = RInt(15)
    /\ result.value = <<"chemsem", "_", "1", "5", "kv">>

\* The integer nearest to a non-negative rational (no halves occur).
NearestInteger(a) == (2 * a[1] + a[2]) \div (2 * a[2])

\* The digits between the "_" and the "kv" of a label with a voltage suffix.
SuffixDigits(label) ==
    LET k == CHOOSE i \in 1..Len(label) : label[i] = "_"
    IN  SubSeq(label, k + 1, Len(label) - 1)

\* C21: the voltage suffix of a mode label is the absolute value of the
\* voltage rounded to the nearest integer number of kV (so a voltage and its
\* negation, and two voltages rounding to the same integer, get one suffix).
C21_SuffixRoundsToNearest ==
    (GetModeCalled /\ result.kind = "str"
                   /\ call.metadata.high_voltage_kV # NoVoltage) =>
        SuffixDigits(result.value)
            = Digits(NearestInteger(RAbs(call.metadata.high_voltage_kV)))

(***************************************************************************)
(* Claims about the overview matching test and the metadata validation.    *)
(***************************************************************************)
\* C22: every confidence value reported by template matching lies in
\* [0, 1]; a negative best correlation is reported as 0.
C22_ConfidenceInUnitInterval ==
    call.fn = "template_match_session_images" =>
        /\ RLe(RZero, result.confidence)
        /\ RLe(result.confidence, RInt(1))
        /\ RLt(call.max_val, RZero) => result.confidence = RZero

\* C23: validation flags a match as inconsistent exactly when the pixel
\* distance between the predicted and the matched position is strictly
\* greater than 100 px; a distance of at most 100 px is not flagged.
C23_FlaggedIffBeyondThreshold ==
    \A i \in 1..Len(validated) :
        validated[i].is_valid <=> validated[i].distance_sq <= 100 * 100

(***************************************************************************)
(* Claims about sessions and the workflow folder.                          *)
(***************************************************************************)
\* C24: whenever the workflow saves or loads collections, the folder it
\* uses is the workflow folder of the session open at that moment, never the
\* folder of a session opened earlier.
C24_IoInCurrentSessionFolder ==
    (area = "session" /\ lastIo.op # "none") =>
        /\ lastIo.session_folder # "None"
        /\ lastIo.folder = WorkflowFolderOf(lastIo.session_folder)

\* C25: after open_session(folder) returned True, every entry of the
\* manager's metadata belongs to that folder; no entry of a session opened
\* before remains.
C25_MetadataOnlyOfOpenedFolder ==
    (area = "session" /\ opened.called /\ opened.returned) =>
        \A k \in 1..Len(opened.after.metadata) :
            opened.after.metadata[k][1] = opened.folder_path

\* C26: when open_session returned False, session_folder, current_session,
\* image_files and metadata are as they were before the call.
C26_FailedOpenChangesNothing ==
    (area = "session" /\ opened.called /\ ~opened.returned) =>
        opened.after = opened.before

(***************************************************************************)
(* Claims about the pooled metadata and the bands of the comparison.       *)
(***************************************************************************)
SeqRange(s) == { s[k] : k \in 1..Len(s) }

\* C27: the pooled metadata holds exactly the entries of the sessions that
\* are currently added: removing a session removes its entries and no entry
\* of another session.
C27_PoolIsEntriesOfAddedSessions ==
    area = "compare" =>
        SeqRange(all_metadata) =
            UNION { SeqRange(LoadMetadataCsv(sessions[i], csvFiles)) :
                        i \in 1..Len(sessions) }

\* C28: within one discovery run no image is the selected image of two
\* different collections of the same mode and voltage.
C28_SelectedInOneBandOnly ==
    area = "compare" =>
        \A i, j \in 1..Len(compareCollections) :
            (/\ i < j
             /\ compareCollections[i].mode = compareCollections[j].mode
             /\ compareCollections[i].high_voltage = compareCollections[j].high_voltage)
            => \A a \in 1..Len(compareCollections[i].images),
                  b \in 1..Len(compareCollections[j].images) :
                  compareCollections[i].images[a].path
                      # compareCollections[j].images[b].path

(***************************************************************************)
(* Claim about the mode label of the members of a pyramid.                 *)
(***************************************************************************)
\* The mix factors in the additional_params of the catalogue's images: "f"
\* weighs the segments as a horizontal topography image does, the others as
\* a vertical one.
MixFactorsOf(path) == IF path = "f" THEN <<1, 2, 2, 1>> ELSE <<2, 1, 1, 2>>

\* The label _get_mode_from_metadata gives to image i of the session metadata.
ClassifiedMode(i) ==
    LET m == metadata[i]
        w == MixFactorsOf(m.image_path)
    IN  GetModeFromMetadata(
            ModeRecord(<<m.filename>>, m.mode, RInt(m.high_voltage_kV),
                       "additional_params", w[1], w[2], w[3], w[4]))

\* C29: all members of an emitted pyramid have the same classified mode
\* label; a horizontal and a vertical topography image are never chained.
C29_PyramidOfOneClassifiedMode ==
    area = "mag" =>
        \A n \in 1..Len(magCollections) :
            \A a, b \in 1..Len(magCollections[n].images) :
                ClassifiedMode(magCollections[n].images[a].img)
                    = ClassifiedMode(magCollections[n].images[b].img)

(***************************************************************************)
(* Claim about switching to an alternative image.                          *)
(***************************************************************************)
\* The selected path of an entry together with its alternates.
SelectedAndAlternates(entry) ==
    {entry.path} \cup { entry.alternatives[k] : k \in 1..Len(entry.alternatives) }

\* The last call named an index out of range, or a path that is not a
\* listed alternate of the entry.
SwitchRejected ==
    /\ switchLast.called
    /\ \/ switchLast.image_index < 0
       \/ switchLast.image_index >= Len(switchLast.before)
       \/ ~InList(switchLast.alternative_path,
                  switchLast.before[switchLast.image_index + 1].alternatives)

\* C30: after any sequence of switch_image_alternative calls, the selected
\* path of every entry together with its alternates is the set it was when
\* the collection was created; a call with an index out of range or a path
\* that is not a listed alternate changes nothing.
C30_AlternatesPreserved ==
    area = "switch" =>
        /\ Len(switchColl) = Len(SwitchCollectionInit)
        /\ \A i \in 1..Len(switchColl) :
              SelectedAndAlternates(switchColl[i])
                  = SelectedAndAlternates(SwitchCollectionInit[i])
        /\ SwitchRejected => switchColl = switchLast.before

\* An entry has been switched twice, so that the path selected at creation
\* is now an alternate and a former alternate is selected, and the last call
\* was a switch that took place.
C30_Witness ==
    /\ area = "switch"
    /\ switchColl[1].path = "a3"
    /\ switchColl[1].alternatives = <<"a1", "a2">>
    /\ switchLast.called
    /\ switchLast.before # switchColl
    /\ switchLast.before # SwitchCollectionInit

====
